---------------------------- MODULE Spec2Model ----------------------------
(***************************************************************************)
(* The exam session of QuizGeneratorByPDF: the two ExamInterface classes   *)
(* (the basic one of file-selector.js and the API one of script_api.js),   *)
(* their event handlers, timer and submission, and their scoring.          *)
(*                                                                         *)
(* JavaScript strings are sequences of one-character strings, so that      *)
(* "2" is <<"2">> and the string operations of the code (toString,         *)
(* parseInt, String.fromCharCode, replace) are computed, not assumed.      *)
(***************************************************************************)
EXTENDS Integers, Sequences, FiniteSets, TLC

VARIABLES
    impl,                  \* which class runs: "basic" or "api"
    questions,             \* this.questions
    currentQuestionIndex,  \* this.currentQuestionIndex
    answers,               \* this.answers: a function from the keys present
    markedQuestions,       \* this.markedQuestions
    timeRemaining,         \* this.timeRemaining
    timerInterval,         \* TRUE while the setInterval of startTimer is live
    dom,                   \* "exam" while the exam page is shown, "results" after showResults
    checked,               \* value of the checked radio input[name=answer], or NoRadio
    modal,                 \* TRUE while #submitModal is displayed
    autoSubmitTimeouts,    \* basic: pending setTimeout(submitExam, 2000) of autoSubmitExam
    autoNextTimeouts,      \* api: pending setTimeout(auto-next, 300) of the save button
    pendingSubmits,        \* api: /api/submit requests sent and not yet answered
    submitCalls,           \* history: number of submitExam invocations
    timeoutSubmits,        \* history: number of submissions started by the timer
    sentCount,             \* history: number of requests handed to /api/submit
    submitScore,           \* api: <<the score answers had when the submission whose result
                           \* is awaited was invoked>>, <<>> when none is awaited
    shownResult,           \* <<the result showResults put on the page>>, <<>> before
    resultCount,           \* history: number of showResults calls
    clock,                 \* whole seconds of Date.now() - examStartTime
    timeTaken,             \* api: <<time_taken of the last request sent>>, <<>> before
    progressShown,         \* <<the counts and the percentage the page shows>>, <<>> when
                           \* the page has none
    called,                \* <<the operation applied last, with the state it was
                           \* applied in>>; kept by the specification of the
                           \* operations only, <<>> elsewhere
    loading,               \* api: where loadQuestions() and init() stand, the polling
                           \* attempts made, the status polled last and the answer
                           \* of /api/questions
    selectedFiles,         \* FileSelector: this.selectedFiles
    sampleSelected,        \* FileSelector: the sample file cards of class 'selected'
    uploadMethod,          \* FileSelector: this.uploadMethod
    progressModal,         \* FileSelector: TRUE while #progressModal is displayed
    actionButtons,         \* FileSelector: whether #extractBtn and #previewBtn are
                           \* enabled and #extractionOptions is visible
    flows,                 \* FileSelector: the extractQuestions() calls, each with where
                           \* it stands
    requests,              \* FileSelector: the requests sent, in order
    notifications,         \* FileSelector: the notifications shown so far
    location               \* window.location.href

vars == <<impl, questions, currentQuestionIndex, answers, markedQuestions,
          timeRemaining, timerInterval, dom, checked, modal,
          autoSubmitTimeouts, autoNextTimeouts, pendingSubmits,
          submitCalls, timeoutSubmits, sentCount, submitScore, shownResult,
          resultCount, clock, timeTaken, progressShown, called, loading,
          selectedFiles, sampleSelected, uploadMethod, progressModal,
          actionButtons, flows, requests, notifications, location>>

----------------------------------------------------------------------------
(* Bounds of the model *)

\* number of questions of a session (a prefix of the built-in list)
NumQ == 2
\* timer ticks left when the modelled part of a session starts
TicksLeft == 2
\* submitExam invocations followed per session
MaxSubmits == 2
\* auto-next timeouts pending at once
MaxAutoNext == 1
\* longest question list handed to the scoring functions
ScoreMaxQ == 3
\* longest question list a percentage is computed for
MaxTotal == 40

----------------------------------------------------------------------------
(* JavaScript values *)

NoRadio == <<>>
NaN == -1

Digits == {"0", "1", "2", "3", "4", "5", "6", "7", "8", "9"}

DigitValue(c) ==
    CASE c = "0" -> 0 [] c = "1" -> 1 [] c = "2" -> 2 [] c = "3" -> 3
      [] c = "4" -> 4 [] c = "5" -> 5 [] c = "6" -> 6 [] c = "7" -> 7
      [] c = "8" -> 8 [] c = "9" -> 9

DigitChar(d) ==
    CASE d = 0 -> "0" [] d = 1 -> "1" [] d = 2 -> "2" [] d = 3 -> "3"
      [] d = 4 -> "4" [] d = 5 -> "5" [] d = 6 -> "6" [] d = 7 -> "7"
      [] d = 8 -> "8" [] d = 9 -> "9"

\* Number.prototype.toString of a non-negative integer
RECURSIVE toString(_)
toString(n) ==
    IF n < 10 THEN <<DigitChar(n)>>
    ELSE Append(toString(n \div 10), DigitChar(n % 10))

\* value of the longest prefix of digits of s read as a decimal number
RECURSIVE DigitPrefixValue(_, _)
DigitPrefixValue(s, acc) ==
    IF s = <<>> \/ Head(s) \notin Digits THEN acc
    ELSE DigitPrefixValue(Tail(s), 10 * acc + DigitValue(Head(s)))

\* parseInt of a string: NaN unless it starts with a digit
parseInt(s) ==
    IF s = <<>> \/ Head(s) \notin Digits THEN NaN
    ELSE DigitPrefixValue(s, 0)

UpperCase == <<"A", "B", "C", "D", "E", "F", "G", "H", "I", "J", "K", "L", "M",
               "N", "O", "P", "Q", "R", "S", "T", "U", "V", "W", "X", "Y", "Z">>

\* String.fromCharCode(64 + n): the n-th capital letter for n in 1..26;
\* 64 + NaN is NaN, whose character is NUL
fromCharCode64Plus(n) ==
    IF n = NaN THEN <<"NUL">>
    ELSE IF n \in 1..26 THEN <<UpperCase[n]>>
    ELSE IF n = 0 THEN <<"@">>
    ELSE <<"other">>

\* s.replace(/[^\d]/g, '')
replaceNonDigits(s) == SelectSeq(s, LAMBDA c : c \in Digits)

\* JavaScript truthiness of an answers entry (undefined when the key is absent)
Truthy(a, key) == key \in DOMAIN a /\ a[key] # <<>>

\* A positive Number is an IEEE 754 double: a significand of 53 bits, the first
\* of them 1 and of exponent e, the 52 after it kept in m as Limbs limbs of
\* LimbBits bits, the most significant first.  Zero has no limbs.
LimbBits == 13
Limbs == 4
LimbBase == 2 ^ LimbBits

Zero == [m |-> <<>>, e |-> 0]

\* the element of a set of one element: the value of an expression, computed
\* once
The(S) == CHOOSE v \in S : TRUE

\* the Number one unit in the last place above the one of limbs m
NextUp(m, e) ==
    LET notFull == {i \in 1..Limbs : m[i] # LimbBase - 1}
    IN  IF notFull = {} THEN [m |-> [i \in 1..Limbs |-> 0], e |-> e + 1]
        ELSE LET k == CHOOSE i \in notFull : \A j \in notFull : j <= i
             IN  [m |-> [i \in 1..Limbs |->
                            IF i < k THEN m[i] ELSE IF i = k THEN m[i] + 1 ELSE 0],
                  e |-> e]

\* round to nearest, ties to even: half is the first bit dropped, more says
\* whether a bit after it is 1
RoundToNearestEven(m, e, half, more) ==
    The({ IF half /\ (more \/ limbs[Limbs] % 2 = 1)
          THEN NextUp(limbs, e) ELSE [m |-> limbs, e |-> e] : limbs \in {m} })

\* the next n limbs of r / d for r < d, and the remainder left
RECURSIVE QuotientLimbs(_, _, _, _)
QuotientLimbs(r, d, n, acc) ==
    IF n = 0 THEN [m |-> acc, rem |-> r]
    ELSE QuotientLimbs((r * LimbBase) % d, d, n - 1,
                       Append(acc, (r * LimbBase) \div d))

\* a doubled until it is at least b
RECURSIVE ShiftNumerator(_, _, _)
ShiftNumerator(a, b, k) ==
    IF a >= b THEN [n |-> a, k |-> k] ELSE ShiftNumerator(2 * a, b, k + 1)

\* b doubled while a is at least twice it
RECURSIVE ShiftDenominator(_, _, _)
ShiftDenominator(a, b, j) ==
    IF a < 2 * b THEN [d |-> b, j |-> j] ELSE ShiftDenominator(a, 2 * b, j + 1)

\* a / b for integers a >= 0 and b > 0
Divide(a, b) ==
    IF a = 0 THEN Zero
    ELSE The({ The({ The({ RoundToNearestEven(q.m, den.j - num.k,
                                              2 * q.rem >= den.d,
                                              (2 * q.rem) % den.d # 0) :
                             q \in {QuotientLimbs(num.n - den.d, den.d, Limbs, <<>>)} }) :
                       den \in {ShiftDenominator(num.n, b, 0)} }) :
               num \in {ShiftNumerator(a, b, 0)} })

\* the limbs m from limb i down, times n, plus carry: the limbs of the
\* product and what is carried into the leading bit
RECURSIVE TimesLimbs(_, _, _, _, _)
TimesLimbs(m, n, i, carry, acc) ==
    IF i = 0 THEN [top |-> n + carry, m |-> acc]
    ELSE LET v == m[i] * n + carry
         IN  TimesLimbs(m, n, i - 1, v \div LimbBase, <<v % LimbBase>> \o acc)

\* the product p, whose leading part p.top has s bits after its first one,
\* rounded to a Number of exponent e + s
Normalized(p, s, e) ==
    IF s = 0 THEN [m |-> p.m, e |-> e]
    ELSE RoundToNearestEven(
             [i \in 1..Limbs |->
                 ((IF i = 1 THEN p.top ELSE p.m[i - 1]) % (2 ^ s)) * 2 ^ (LimbBits - s)
                 + p.m[i] \div (2 ^ s)],
             e + s,
             p.m[Limbs] % (2 ^ s) >= 2 ^ (s - 1),
             (p.m[Limbs] % (2 ^ s)) % (2 ^ (s - 1)) # 0)

\* x * n for a Number x and an integer n in 1..LimbBase
Times(x, n) ==
    IF x.m = <<>> THEN Zero
    ELSE The({ The({ Normalized(p, s, x.e) :
                       s \in {k \in 0..(2 * LimbBits) :
                                 2 ^ k <= p.top /\ p.top < 2 ^ (k + 1)} }) :
               p \in {TimesLimbs(x.m, n, Limbs, 0, <<>>)} })

\* Math.round(x): the integer nearest to x, a half rounded up, for x below
\* 2 ^ LimbBits
MathRound(x) ==
    IF x.m = <<>> \/ x.e < -1 THEN 0
    ELSE IF x.e = -1 THEN 1
    ELSE 2 ^ x.e + x.m[1] \div (2 ^ (LimbBits - x.e))
         + ((x.m[1] \div (2 ^ (LimbBits - x.e - 1))) % 2)

\* mutant: the entry is emptied, its key stays
Delete_keepsKey(a, key) == [k \in DOMAIN a |-> IF k = key THEN <<>> ELSE a[k]]

\* delete a[key]
Delete(a, key) == [k \in DOMAIN a \ {key} |-> a[k]]

\* a[key] = value
Store(a, key, value) == [k \in DOMAIN a \cup {key} |-> IF k = key THEN value ELSE a[k]]

----------------------------------------------------------------------------
(* Questions *)

Options4 == <<"A", "B", "C", "D">>

Question(id, letter) == [id |-> id, options |-> Options4, correct |-> <<letter>>]

\* the ten built-in questions of both classes
BuiltInQuestions ==
    << Question(1, "D"), Question(2, "D"), Question(3, "B"), Question(4, "B"),
       Question(5, "B"), Question(6, "A"), Question(7, "D"), Question(8, "D"),
       Question(9, "A"), Question(10, "A") >>

----------------------------------------------------------------------------
(* Scoring *)

\* Math.round((correct / total) * 100) for every total a list of the model
\* has and every count up to it
Percentages ==
    [total \in 1..MaxTotal |->
        [correct \in 0..total |->
            The({ MathRound(product) :
                    product \in { Times(quotient, 100) :
                                     quotient \in {Divide(correct, total)} } })]]

\* percentage: Math.round((correct / total) * 100)
Percentage(correct, total) == Percentages[total][correct]

\* basic class: the questions counted as attempted and as correct; the key of
\* the question at (0-based) index i - 1 is i
Basic_attempted(qs, a) == {i \in 1..Len(qs) : Truthy(a, i)}

Basic_correct(qs, a) ==
    {i \in 1..Len(qs) : Truthy(a, i) /\ a[i] = replaceNonDigits(qs[i].correct)}

Basic_calculateResults(qs, a) ==
    LET correct == Cardinality(Basic_correct(qs, a))
        attempted == Cardinality(Basic_attempted(qs, a))
    IN  [by |-> "calculateResults",
         total |-> Len(qs),
         attempted |-> attempted,
         correct |-> correct,
         incorrect |-> attempted - correct,
         unattempted |-> Len(qs) - attempted,
         percentage |-> Percentage(correct, Len(qs))]

\* API class: the questions counted as correct; the key of a question is its id
Api_correct(qs, a) ==
    {i \in 1..Len(qs) :
        /\ Truthy(a, qs[i].id)
        /\ fromCharCode64Plus(parseInt(a[qs[i].id])) = qs[i].correct}

\* mutant: incorrect taken as everything that is not correct
Api_offlineResults_incorrectFromTotal(qs, a) ==
    LET totalQuestions == Len(qs)
        answeredQuestions == Cardinality(DOMAIN a)
        correct == Cardinality(Api_correct(qs, a))
    IN  [by |-> "showOfflineResults",
         total |-> totalQuestions,
         correct |-> correct,
         incorrect |-> totalQuestions - correct,
         unattempted |-> totalQuestions - answeredQuestions,
         percentage |-> Percentage(correct, totalQuestions)]

Api_offlineResults(qs, a) ==
    LET totalQuestions == Len(qs)
        answeredQuestions == Cardinality(DOMAIN a)
        correct == Cardinality(Api_correct(qs, a))
    IN  [by |-> "showOfflineResults",
         total |-> totalQuestions,
         correct |-> correct,
         incorrect |-> answeredQuestions - correct,
         unattempted |-> totalQuestions - answeredQuestions,
         percentage |-> Percentage(correct, totalQuestions)]

\* what the server answers to /api/submit is not this program's to compute
ServerResult == [by |-> "server"]

----------------------------------------------------------------------------
(* The session: state shared by the two classes *)

Basic == "basic"
Api == "api"

\* the question shown
CurrentQuestion == questions[currentQuestionIndex + 1]

\* the option positions the keyboard handlers of both classes accept
DigitKeys == 1..4

\* the options the modelled user picks, by click or by key: a wrong one and
\* the correct one of the first built-in questions
OptionsTried == {1, 4}

\* mutant: isSelected compares the stored string with the text of the option
RenderChecked_comparesLabel(a, key, q) ==
    IF key \in DOMAIN a /\ \E n \in 1..Len(q.options) : a[key] = <<q.options[n]>>
    THEN a[key]
    ELSE NoRadio

\* the radio the (re)drawn options show as checked for the entry stored under
\* key: isSelected is answers[key] === optionNumber.toString()
RenderChecked(a, key, q) ==
    IF key \in DOMAIN a /\ \E n \in 1..Len(q.options) : a[key] = toString(n)
    THEN a[key]
    ELSE NoRadio

\* basic class, updateStats() and updateProgress(): the counts and the
\* percentage shown for answers a and marked set m
Basic_progress(qs, a, m) ==
    LET answered == Cardinality(DOMAIN a)
    IN  [answeredCount |-> answered,
         markedCount |-> Cardinality(m),
         unansweredCount |-> Len(qs) - answered,
         percentComplete |-> Percentage(answered, Len(qs))]

\* API class, updateDisplay(): the percentage of the progress bar, taken from
\* the position idx of the question shown, and the counts of
\* updateQuestionNavigator()
Api_progress(qs, a, m, idx) ==
    LET answeredQuestions == Cardinality(DOMAIN a)
    IN  [answeredCount |-> answeredQuestions,
         markedCount |-> Cardinality(m),
         unansweredCount |-> Len(qs) - answeredQuestions,
         percentComplete |-> Percentage(idx + 1, Len(qs))]

\* 90 * 60: 1.5 hours in seconds
ExamSeconds == 5400

\* the whole seconds that pass between the constructor, which takes
\* examStartTime, and startTimer when nothing has to be waited for but the
\* loading animation: 5 steps of 200 ms (11 steps of 100 ms in the basic class)
LoadingSeconds == 1

\* loadQuestions() and init() have run to their end
Loaded == [pc |-> "done", attempts |-> 0, polled |-> "", data |-> <<>>]

\* updateActionButtons(): extractBtn.disabled and previewBtn.disabled are
\* !hasFiles, #extractionOptions is hidden unless hasFiles
ActionButtons(hasFiles) ==
    [extractBtn |-> hasFiles, previewBtn |-> hasFiles, extractionOptions |-> hasFiles]

\* the page is /exam: the file selection page and its FileSelector are gone
AtExam ==
    /\ selectedFiles = <<>>
    /\ sampleSelected = {}
    /\ uploadMethod = "upload"
    /\ progressModal = FALSE
    /\ actionButtons = ActionButtons(FALSE)
    /\ flows = <<>>
    /\ requests = <<>>
    /\ notifications = {}
    /\ location = "/exam"

\* what the constructor and init() set besides the questions
InitFields(t) ==
    /\ loading = Loaded
    /\ AtExam
    /\ currentQuestionIndex = 0
    /\ answers = <<>>
    /\ markedQuestions = {}
    /\ timeRemaining = t
    /\ timerInterval = TRUE
    /\ dom = "exam"
    /\ checked = NoRadio
    /\ modal = FALSE
    /\ autoSubmitTimeouts = 0
    /\ autoNextTimeouts = 0
    /\ pendingSubmits = 0
    /\ submitCalls = 0
    /\ timeoutSubmits = 0
    /\ sentCount = 0
    /\ submitScore = <<>>
    /\ shownResult = <<>>
    /\ resultCount = 0
    /\ clock = LoadingSeconds + (ExamSeconds - t)
    /\ timeTaken = <<>>
    /\ progressShown = IF impl = Basic
                       THEN <<Basic_progress(questions, answers, markedQuestions)>>
                       ELSE <<Api_progress(questions, answers, markedQuestions,
                                           currentQuestionIndex)>>
    /\ called = <<>>

\* the state in which each class leaves its constructor and init(), with the
\* timer started and t seconds on it
InitSession(t) ==
    /\ impl \in {Basic, Api}
    /\ questions = SubSeq(BuiltInQuestions, 1, NumQ)
    /\ InitFields(t)

\* a freshly constructed session
InitConstructed == InitSession(ExamSeconds)

\* the same session after ExamSeconds - TicksLeft ticks in which the user did
\* nothing
Init == InitSession(TicksLeft)

history == <<submitCalls, timeoutSubmits, sentCount, submitScore, shownResult,
            resultCount, timeTaken>>
timers == <<timeRemaining, timerInterval, autoSubmitTimeouts, autoNextTimeouts, clock>>
submission == <<pendingSubmits, history>>
fileSelector == <<selectedFiles, sampleSelected, uploadMethod, progressModal,
                  actionButtons, flows, requests, notifications, location>>
fixed == <<impl, questions, loading, fileSelector>>

----------------------------------------------------------------------------
(* The basic class: ExamInterface of file-selector.js *)

\* key under which the basic class stores the current question
Basic_questionId == currentQuestionIndex + 1

\* updateDisplay redraws the options of question index idx from a; once the
\* results replace the exam container it fails on the first missing element
Basic_updateDisplay(a, m, idx) ==
    IF dom = "exam"
    THEN /\ checked' = RenderChecked(a, idx + 1, questions[idx + 1])
         /\ progressShown' = <<Basic_progress(questions, a, m)>>
    ELSE UNCHANGED <<checked, progressShown>>

Basic_showSubmitModal == modal' = (IF dom = "exam" THEN TRUE ELSE modal)

\* prevBtn (disabled on the first question) or ArrowLeft
Basic_previousQuestion ==
    /\ impl = Basic
    /\ \E via \in {"button", "key"} :
          /\ via = "button" => (dom = "exam" /\ currentQuestionIndex > 0)
          /\ IF currentQuestionIndex > 0
             THEN /\ currentQuestionIndex' = currentQuestionIndex - 1
                  /\ Basic_updateDisplay(answers, markedQuestions, currentQuestionIndex - 1)
             ELSE UNCHANGED <<currentQuestionIndex, checked, progressShown>>
    /\ UNCHANGED <<fixed, called, answers, markedQuestions, timers, dom, modal, submission>>

\* nextBtn or ArrowRight
Basic_nextQuestion ==
    /\ impl = Basic
    /\ \E via \in {"button", "key"} :
          /\ via = "button" => dom = "exam"
          /\ IF currentQuestionIndex < Len(questions) - 1
             THEN /\ currentQuestionIndex' = currentQuestionIndex + 1
                  /\ Basic_updateDisplay(answers, markedQuestions, currentQuestionIndex + 1)
                  /\ UNCHANGED modal
             ELSE /\ Basic_showSubmitModal
                  /\ UNCHANGED <<currentQuestionIndex, checked, progressShown>>
    /\ UNCHANGED <<fixed, called, answers, markedQuestions, timers, dom, submission>>

\* mutant: goToQuestion first saves the checked radio under the question it
\* leaves
Basic_goToQuestion_savesOnLeave ==
    /\ impl = Basic
    /\ dom = "exam"
    /\ answers' = IF checked # NoRadio
                  THEN Store(answers, currentQuestionIndex + 1, checked)
                  ELSE answers
    /\ \E index \in 0..(Len(questions) - 1) :
          IF index >= 0 /\ index < Len(questions)
          THEN /\ currentQuestionIndex' = index
               /\ checked' = RenderChecked(answers', index + 1, questions[index + 1])
               /\ progressShown' = <<Basic_progress(questions, answers', markedQuestions)>>
          ELSE UNCHANGED <<currentQuestionIndex, checked, progressShown>>
    /\ UNCHANGED <<fixed, called, markedQuestions, timers, dom, modal, submission>>

\* a click in the question grid
Basic_goToQuestion ==
    /\ impl = Basic
    /\ dom = "exam"
    /\ \E index \in 0..(Len(questions) - 1) :
          IF index >= 0 /\ index < Len(questions)
          THEN /\ currentQuestionIndex' = index
               /\ Basic_updateDisplay(answers, markedQuestions, index)
          ELSE UNCHANGED <<currentQuestionIndex, checked, progressShown>>
    /\ UNCHANGED <<fixed, called, answers, markedQuestions, timers, dom, modal, submission>>

\* selectOption(value): fails before storing when no input has that value
Basic_storeOption(value) ==
    IF dom = "exam" /\ \E n \in 1..Len(CurrentQuestion.options) : toString(n) = value
    THEN /\ answers' = Store(answers, currentQuestionIndex + 1, value)
         /\ progressShown' = <<Basic_progress(questions, answers', markedQuestions)>>
    ELSE UNCHANGED <<answers, progressShown>>

\* a click on an option (or its radio): the radio is checked, then selectOption
Basic_optionClick ==
    /\ impl = Basic
    /\ dom = "exam"
    /\ \E n \in 1..Len(CurrentQuestion.options) \cap OptionsTried :
          /\ checked' = toString(n)
          /\ Basic_storeOption(toString(n))
    /\ UNCHANGED <<fixed, called, currentQuestionIndex, markedQuestions, timers, dom, modal,
                   submission>>

\* keys 1 to 4: selectOption(e.key), which leaves the radios alone
Basic_selectOption ==
    /\ impl = Basic
    /\ \E n \in DigitKeys \cap OptionsTried : Basic_storeOption(toString(n))
    /\ UNCHANGED <<fixed, called, currentQuestionIndex, markedQuestions, timers, dom, checked,
                   modal, submission>>

\* saveBtn or the s key: selectOption(value of the checked radio)
Basic_saveAnswer ==
    /\ impl = Basic
    /\ \E via \in {"button", "key"} :
          /\ via = "button" => dom = "exam"
          /\ IF checked # NoRadio
             THEN Basic_storeOption(checked)
             ELSE UNCHANGED <<answers, progressShown>>
    /\ UNCHANGED <<fixed, called, currentQuestionIndex, markedQuestions, timers, dom, checked,
                   modal, submission>>

\* clearBtn
Basic_clearAnswer ==
    /\ impl = Basic
    /\ dom = "exam"
    /\ answers' = Delete(answers, Basic_questionId)
    /\ Basic_updateDisplay(answers', markedQuestions, currentQuestionIndex)
    /\ UNCHANGED <<fixed, called, currentQuestionIndex, markedQuestions, timers, dom, modal,
                   submission>>

\* markBtn or the m key
Basic_markForReview ==
    /\ impl = Basic
    /\ \E via \in {"button", "key"} :
          /\ via = "button" => dom = "exam"
          /\ markedQuestions' =
                IF Basic_questionId \in markedQuestions
                THEN markedQuestions \ {Basic_questionId}
                ELSE markedQuestions \cup {Basic_questionId}
          /\ Basic_updateDisplay(answers, markedQuestions', currentQuestionIndex)
    /\ UNCHANGED <<fixed, called, currentQuestionIndex, answers, timers, dom, modal, submission>>

\* submitBtn
Basic_submitBtn ==
    /\ UNCHANGED progressShown
    /\ impl = Basic
    /\ dom = "exam"
    /\ Basic_showSubmitModal
    /\ UNCHANGED <<fixed, called, currentQuestionIndex, answers, markedQuestions, timers, dom,
                   checked, submission>>

\* modalClose or cancelSubmit
Basic_hideSubmitModal ==
    /\ UNCHANGED progressShown
    /\ impl = Basic
    /\ dom = "exam"
    /\ modal
    /\ modal' = FALSE
    /\ UNCHANGED <<fixed, called, currentQuestionIndex, answers, markedQuestions, timers, dom,
                   checked, submission>>

\* showResults(result) of either class: the result page replaces the exam
\* page, its radios and its modal
showResults(result) ==
    /\ shownResult' = <<result>>
    /\ resultCount' = resultCount + 1
    /\ dom' = "results"
    /\ checked' = NoRadio
    /\ modal' = FALSE
    /\ progressShown' = <<>>

\* submitExam: stops the timer, scores, shows the results in place of the exam
Basic_submitExam ==
    /\ timerInterval' = FALSE
    /\ showResults(Basic_calculateResults(questions, answers))
    /\ submitCalls' = submitCalls + 1
    /\ UNCHANGED <<submitScore, timeTaken>>

\* confirmSubmit
Basic_confirmSubmit ==
    /\ impl = Basic
    /\ dom = "exam"
    /\ modal
    /\ submitCalls < MaxSubmits
    /\ Basic_submitExam
    /\ UNCHANGED <<fixed, called, currentQuestionIndex, answers, markedQuestions, timeRemaining, clock,
                   autoSubmitTimeouts, autoNextTimeouts, pendingSubmits, timeoutSubmits,
                   sentCount>>

\* mutant: autoSubmitExam without its clearInterval
Basic_autoSubmitExam_timerLeftRunning ==
    /\ timerInterval' = timerInterval
    /\ autoSubmitTimeouts' = autoSubmitTimeouts + 1

\* autoSubmitExam: stops the timer and schedules submitExam two seconds later
Basic_autoSubmitExam ==
    /\ timerInterval' = FALSE
    /\ autoSubmitTimeouts' = autoSubmitTimeouts + 1

\* mutant: the timeout test is < 0 where the code has <= 0
Basic_tick_stopsBelowZero ==
    /\ UNCHANGED progressShown
    /\ impl = Basic
    /\ timerInterval
    /\ timeRemaining' = timeRemaining - 1
    /\ clock' = clock + 1
    /\ IF timeRemaining' < 0
       THEN Basic_autoSubmitExam
       ELSE UNCHANGED <<timerInterval, autoSubmitTimeouts>>
    /\ UNCHANGED <<fixed, called, currentQuestionIndex, answers, markedQuestions, dom, checked,
                   modal, autoNextTimeouts, submission>>

\* the interval callback of startTimer
Basic_tick ==
    /\ UNCHANGED progressShown
    /\ impl = Basic
    /\ timerInterval
    /\ timeRemaining' = timeRemaining - 1
    /\ clock' = clock + 1
    /\ IF timeRemaining' <= 0
       THEN Basic_autoSubmitExam
       ELSE UNCHANGED <<timerInterval, autoSubmitTimeouts>>
    /\ UNCHANGED <<fixed, called, currentQuestionIndex, answers, markedQuestions, dom, checked,
                   modal, autoNextTimeouts, submission>>

\* the timeout of autoSubmitExam fires
Basic_autoSubmitFire ==
    /\ impl = Basic
    /\ autoSubmitTimeouts > 0
    /\ autoSubmitTimeouts' = autoSubmitTimeouts - 1
    /\ timeoutSubmits' = timeoutSubmits + 1
    /\ Basic_submitExam
    /\ UNCHANGED <<fixed, called, currentQuestionIndex, answers, markedQuestions, timeRemaining, clock,
                   autoNextTimeouts, pendingSubmits, sentCount>>

BasicUser ==
    \/ Basic_previousQuestion
    \/ Basic_nextQuestion
    \/ Basic_goToQuestion
    \/ Basic_optionClick
    \/ Basic_selectOption
    \/ Basic_saveAnswer
    \/ Basic_clearAnswer
    \/ Basic_markForReview
    \/ Basic_submitBtn
    \/ Basic_hideSubmitModal

BasicSubmit ==
    \/ Basic_confirmSubmit
    \/ Basic_tick
    \/ Basic_autoSubmitFire

----------------------------------------------------------------------------
(* The API class: ExamInterface of script_api.js *)

Api_getCurrentQuestionId == questions[currentQuestionIndex + 1].id

\* updateDisplay redraws the options of question index idx from a; once the
\* results replace document.body it fails on the first missing element
Api_updateDisplay(a, m, idx) ==
    IF dom = "exam"
    THEN /\ checked' = RenderChecked(a, questions[idx + 1].id, questions[idx + 1])
         /\ progressShown' = <<Api_progress(questions, a, m, idx)>>
    ELSE UNCHANGED <<checked, progressShown>>

\* updateQuestionNavigator() redraws the counts from a and m and leaves the
\* progress bar alone; it returns at once when the question grid is gone
Api_updateQuestionNavigator(a, m) ==
    progressShown' =
        IF dom = "exam"
        THEN <<[Api_progress(questions, a, m, 0) EXCEPT
                   !.percentComplete = progressShown[1].percentComplete]>>
        ELSE progressShown

\* mutant: nextQuestion wraps around from the last question to the first
Api_stepNext_wrapsAround ==
    IF currentQuestionIndex < Len(questions) - 1
    THEN /\ currentQuestionIndex' = currentQuestionIndex + 1
         /\ Api_updateDisplay(answers, markedQuestions, currentQuestionIndex + 1)
    ELSE /\ currentQuestionIndex' = 0
         /\ Api_updateDisplay(answers, markedQuestions, 0)

\* nextQuestion()
Api_stepNext ==
    IF currentQuestionIndex < Len(questions) - 1
    THEN /\ currentQuestionIndex' = currentQuestionIndex + 1
         /\ Api_updateDisplay(answers, markedQuestions, currentQuestionIndex + 1)
    ELSE UNCHANGED <<currentQuestionIndex, checked, progressShown>>

\* prevBtn (disabled on the first question), ArrowLeft or the a key
Api_previousQuestion ==
    /\ impl = Api
    /\ \E via \in {"button", "key"} :
          /\ via = "button" => (dom = "exam" /\ currentQuestionIndex # 0)
          /\ IF currentQuestionIndex > 0
             THEN /\ currentQuestionIndex' = currentQuestionIndex - 1
                  /\ Api_updateDisplay(answers, markedQuestions, currentQuestionIndex - 1)
             ELSE UNCHANGED <<currentQuestionIndex, checked, progressShown>>
    /\ UNCHANGED <<fixed, called, answers, markedQuestions, timers, dom, modal, submission>>

\* nextBtn (disabled on the last question), ArrowRight or the d key
Api_nextQuestion ==
    /\ impl = Api
    /\ \E via \in {"button", "key"} :
          /\ via = "button" => (dom = "exam" /\ currentQuestionIndex # Len(questions) - 1)
          /\ Api_stepNext
    /\ UNCHANGED <<fixed, called, answers, markedQuestions, timers, dom, modal, submission>>

\* goToQuestion(questionIndex): from Home and End, and from a click on the
\* progress bar, whose target is floor(percentage * length) with percentage
\* in [0, 1]
Api_goToQuestion ==
    /\ impl = Api
    /\ \E via \in {"Home", "End", "progress"} :
       \E target \in 0..Len(questions) :
          /\ via = "Home" => target = 0
          /\ via = "End" => target = Len(questions) - 1
          /\ via = "progress" => dom = "exam"
          /\ IF target >= 0 /\ target < Len(questions)
             THEN /\ currentQuestionIndex' = target
                  /\ Api_updateDisplay(answers, markedQuestions, target)
             ELSE UNCHANGED <<currentQuestionIndex, checked, progressShown>>
    /\ UNCHANGED <<fixed, called, answers, markedQuestions, timers, dom, modal, submission>>

\* a click on a button of the question navigator
Api_navigatorClick ==
    /\ impl = Api
    /\ dom = "exam"
    /\ \E index \in 0..(Len(questions) - 1) :
          /\ currentQuestionIndex' = index
          /\ Api_updateDisplay(answers, markedQuestions, index)
    /\ UNCHANGED <<fixed, called, answers, markedQuestions, timers, dom, modal, submission>>

\* the change listener of a radio: answers[getCurrentQuestionId()] = input.value
Api_radioChange ==
    /\ impl = Api
    /\ dom = "exam"
    /\ \E n \in 1..Len(CurrentQuestion.options) \cap OptionsTried :
          /\ checked' = toString(n)
          /\ answers' = Store(answers, Api_getCurrentQuestionId, toString(n))
          /\ Api_updateQuestionNavigator(answers', markedQuestions)
    /\ UNCHANGED <<fixed, called, currentQuestionIndex, markedQuestions, timers, dom, modal,
                   submission>>

\* mutant: selectOption stores the number of the key without looking for
\* the option
Api_selectOption_withoutOption ==
    /\ impl = Api
    /\ \E key \in DigitKeys \cap OptionsTried :
          LET optionNumber == parseInt(toString(key))
          IN  IF dom = "exam"
              THEN /\ checked' = toString(optionNumber)
                   /\ answers' = Store(answers, Api_getCurrentQuestionId,
                                       toString(optionNumber))
                   /\ Api_updateQuestionNavigator(answers', markedQuestions)
              ELSE UNCHANGED <<checked, answers, progressShown>>
    /\ UNCHANGED <<fixed, called, currentQuestionIndex, markedQuestions, timers, dom, modal,
                   submission>>

\* keys 1 to 4: selectOption(parseInt(e.key))
Api_selectOption ==
    /\ impl = Api
    /\ \E key \in DigitKeys \cap OptionsTried :
          LET optionNumber == parseInt(toString(key))
          IN  IF dom = "exam" /\ optionNumber \in 1..Len(CurrentQuestion.options)
              THEN /\ checked' = toString(optionNumber)
                   /\ answers' = Store(answers, Api_getCurrentQuestionId,
                                       toString(optionNumber))
                   /\ Api_updateQuestionNavigator(answers', markedQuestions)
              ELSE UNCHANGED <<checked, answers, progressShown>>
    /\ UNCHANGED <<fixed, called, currentQuestionIndex, markedQuestions, timers, dom, modal,
                   submission>>

\* saveAnswer(): stores the value of the checked radio, if there is one
Api_saveAnswer ==
    IF checked # NoRadio
    THEN /\ answers' = Store(answers, Api_getCurrentQuestionId, checked)
         /\ Api_updateQuestionNavigator(answers', markedQuestions)
    ELSE UNCHANGED <<answers, progressShown>>

\* the s key, Ctrl+s
Api_saveKey ==
    /\ impl = Api
    /\ Api_saveAnswer
    /\ UNCHANGED <<fixed, called, currentQuestionIndex, markedQuestions, timers, dom, checked,
                   modal, submission>>

\* saveBtn: its two click listeners both save, the second also schedules the
\* auto-next
Api_saveBtn ==
    /\ impl = Api
    /\ dom = "exam"
    /\ autoNextTimeouts < MaxAutoNext
    /\ Api_saveAnswer
    /\ autoNextTimeouts' = autoNextTimeouts + 1
    /\ UNCHANGED <<fixed, called, currentQuestionIndex, markedQuestions, timeRemaining, clock,
                   timerInterval, autoSubmitTimeouts, dom, checked, modal, submission>>

\* the auto-next timeout of saveBtn fires
Api_autoNextFire ==
    /\ impl = Api
    /\ autoNextTimeouts > 0
    /\ autoNextTimeouts' = autoNextTimeouts - 1
    /\ IF currentQuestionIndex < Len(questions) - 1
       THEN Api_stepNext
       ELSE UNCHANGED <<currentQuestionIndex, checked, progressShown>>
    /\ UNCHANGED <<fixed, called, answers, markedQuestions, timeRemaining, clock, timerInterval,
                   autoSubmitTimeouts, dom, modal, submission>>

\* clearAnswer(): clearBtn (both of its click listeners) or the c key
Api_clearAnswer ==
    /\ impl = Api
    /\ \E via \in {"button", "key"} :
          /\ via = "button" => dom = "exam"
          /\ answers' = Delete(answers, Api_getCurrentQuestionId)
          /\ checked' = NoRadio
          /\ Api_updateQuestionNavigator(answers', markedQuestions)
    /\ UNCHANGED <<fixed, called, currentQuestionIndex, markedQuestions, timers, dom, modal,
                   submission>>

\* mutant: markForReview only ever adds the question
Api_markForReview_neverUnmarks(m) == m \cup {Api_getCurrentQuestionId}

\* markForReview() applied to the set m
Api_markForReview(m) ==
    IF Api_getCurrentQuestionId \in m
    THEN m \ {Api_getCurrentQuestionId}
    ELSE m \cup {Api_getCurrentQuestionId}

\* the m key, Ctrl+m
Api_markKey ==
    /\ impl = Api
    /\ markedQuestions' = Api_markForReview(markedQuestions)
    /\ Api_updateQuestionNavigator(answers, markedQuestions')
    /\ UNCHANGED <<fixed, called, currentQuestionIndex, answers, timers, dom, checked, modal,
                   submission>>

\* markBtn: both of its click listeners call markForReview
Api_markBtn ==
    /\ impl = Api
    /\ dom = "exam"
    /\ markedQuestions' = Api_markForReview(Api_markForReview(markedQuestions))
    /\ Api_updateQuestionNavigator(answers, markedQuestions')
    /\ UNCHANGED <<fixed, called, currentQuestionIndex, answers, timers, dom, checked, modal,
                   submission>>

\* showSubmitModal(): submitBtn or Ctrl+Enter
Api_showSubmitModal ==
    /\ UNCHANGED progressShown
    /\ impl = Api
    /\ \E via \in {"button", "key"} :
          /\ via = "button" => dom = "exam"
          /\ modal' = (IF dom = "exam" THEN TRUE ELSE modal)
    /\ UNCHANGED <<fixed, called, currentQuestionIndex, answers, markedQuestions, timers, dom,
                   checked, submission>>

\* hideSubmitModal(): cancelSubmit, closeModal or Escape
Api_hideSubmitModal ==
    /\ UNCHANGED progressShown
    /\ impl = Api
    /\ \E via \in {"button", "key"} :
          /\ via = "button" => (dom = "exam" /\ modal)
          /\ modal' = (IF dom = "exam" THEN FALSE ELSE modal)
    /\ UNCHANGED <<fixed, called, currentQuestionIndex, answers, markedQuestions, timers, dom,
                   checked, submission>>

\* mutant: submitExam without its clearInterval
Api_submitExam_timerLeftRunning ==
    /\ timerInterval' = timerInterval
    /\ pendingSubmits' = pendingSubmits + 1
    /\ sentCount' = sentCount + 1
    /\ submitCalls' = submitCalls + 1
    /\ submitScore' = IF pendingSubmits = 0 /\ resultCount = 0
                      THEN <<Api_offlineResults(questions, answers)>>
                      ELSE submitScore
    /\ timeTaken' = <<clock>>

\* submitExam() up to its await: stops the timer and sends answers, time_taken
\* (the whole seconds since examStartTime) and marked_questions to /api/submit
Api_submitExam ==
    /\ timerInterval' = FALSE
    /\ pendingSubmits' = pendingSubmits + 1
    /\ sentCount' = sentCount + 1
    /\ submitCalls' = submitCalls + 1
    /\ submitScore' = IF pendingSubmits = 0 /\ resultCount = 0
                      THEN <<Api_offlineResults(questions, answers)>>
                      ELSE submitScore
    /\ timeTaken' = <<clock>>

\* confirmSubmit
Api_confirmSubmit ==
    /\ UNCHANGED progressShown
    /\ impl = Api
    /\ dom = "exam"
    /\ modal
    /\ submitCalls < MaxSubmits
    /\ Api_submitExam
    /\ UNCHANGED <<fixed, called, currentQuestionIndex, answers, markedQuestions, timeRemaining, clock,
                   autoSubmitTimeouts, autoNextTimeouts, dom, checked, modal,
                   timeoutSubmits, shownResult, resultCount>>

\* timeUp(): stops the timer, alerts, submits
Api_timeUp ==
    /\ timeoutSubmits' = timeoutSubmits + 1
    /\ Api_submitExam
    /\ UNCHANGED <<shownResult, resultCount>>

\* the interval callback of startTimer
Api_tick ==
    /\ UNCHANGED progressShown
    /\ impl = Api
    /\ timerInterval
    /\ timeRemaining' = timeRemaining - 1
    /\ clock' = clock + 1
    /\ IF timeRemaining' <= 0
       THEN Api_timeUp
       ELSE UNCHANGED <<timerInterval, pendingSubmits, history>>
    /\ UNCHANGED <<fixed, called, currentQuestionIndex, answers, markedQuestions,
                   autoSubmitTimeouts, autoNextTimeouts, dom, checked, modal>>

\* submitExam() after its await: the server's result when the response is ok,
\* else showOfflineResults(); showResults replaces document.body
Api_submitResponse ==
    /\ impl = Api
    /\ pendingSubmits > 0
    /\ pendingSubmits' = pendingSubmits - 1
    /\ \E ok \in BOOLEAN :
          showResults(IF ok THEN ServerResult
                      ELSE Api_offlineResults(questions, answers))
    /\ submitScore' = <<>>
    /\ UNCHANGED <<fixed, called, currentQuestionIndex, answers, markedQuestions, timers,
                   submitCalls, timeoutSubmits, sentCount, timeTaken>>

ApiUser ==
    \/ Api_previousQuestion
    \/ Api_nextQuestion
    \/ Api_goToQuestion
    \/ Api_navigatorClick
    \/ Api_radioChange
    \/ Api_selectOption
    \/ Api_saveKey
    \/ Api_saveBtn
    \/ Api_autoNextFire
    \/ Api_clearAnswer
    \/ Api_markKey
    \/ Api_markBtn
    \/ Api_showSubmitModal
    \/ Api_hideSubmitModal

ApiSubmit ==
    \/ Api_confirmSubmit
    \/ Api_tick
    \/ Api_submitResponse

----------------------------------------------------------------------------
(* Specifications *)

Next == BasicUser \/ BasicSubmit \/ ApiUser \/ ApiSubmit

\* a session in its last TicksLeft seconds
Spec == Init /\ [][Next]_vars

----------------------------------------------------------------------------
(* Scoring as a function of its inputs *)

ScoreLetters == {"A", "B", "C"}

\* the well-formed question lists of at most ScoreMaxQ questions: ids unique
\* (first + 1, first + 2, ...), four options, the correct one named by letter
ScoreQuestionLists ==
    UNION { { [i \in 1..n |-> Question(first + i, letters[i])] :
                letters \in [1..n -> ScoreLetters] } :
            n \in 1..ScoreMaxQ, first \in {0, 5} }

\* the key under which the running class stores the answer of question i
AnswerKey(qs, i) == IF impl = Basic THEN i ELSE qs[i].id

AnswerValues == {toString(n) : n \in 1..Len(Options4)}

\* the answers objects the handlers can build for qs
AnswerMaps(qs) ==
    UNION { [ {AnswerKey(qs, i) : i \in S} -> AnswerValues ] : S \in SUBSET (1..Len(qs)) }

\* the fields of a session about to be scored
ScoreFields ==
    /\ loading = Loaded
    /\ AtExam
    /\ currentQuestionIndex = 0
    /\ markedQuestions = {}
    /\ timeRemaining = ExamSeconds
    /\ timerInterval = TRUE
    /\ dom = "exam"
    /\ checked = NoRadio
    /\ modal = FALSE
    /\ autoSubmitTimeouts = 0
    /\ autoNextTimeouts = 0
    /\ pendingSubmits = 0
    /\ submitCalls = 0
    /\ timeoutSubmits = 0
    /\ sentCount = 0
    /\ submitScore = <<>>
    /\ shownResult = <<>>
    /\ resultCount = 0
    /\ clock = LoadingSeconds
    /\ timeTaken = <<>>
    /\ progressShown = IF impl = Basic
                       THEN <<Basic_progress(questions, answers, markedQuestions)>>
                       ELSE <<Api_progress(questions, answers, markedQuestions,
                                           currentQuestionIndex)>>
    /\ called = <<>>

InitScore ==
    /\ impl \in {Basic, Api}
    /\ questions \in ScoreQuestionLists
    /\ answers \in AnswerMaps(questions)
    /\ ScoreFields

\* calculateResults() applied to the inputs
Basic_applyCalculateResults ==
    /\ UNCHANGED progressShown
    /\ impl = Basic
    /\ shownResult = <<>>
    /\ shownResult' = <<Basic_calculateResults(questions, answers)>>
    /\ UNCHANGED <<fixed, called, currentQuestionIndex, answers, markedQuestions, timers, dom,
                   checked, modal, pendingSubmits, submitCalls, timeoutSubmits,
                   sentCount, submitScore, resultCount, timeTaken>>

\* showOfflineResults() applied to the inputs
Api_applyShowOfflineResults ==
    /\ UNCHANGED progressShown
    /\ impl = Api
    /\ shownResult = <<>>
    /\ shownResult' = <<Api_offlineResults(questions, answers)>>
    /\ UNCHANGED <<fixed, called, currentQuestionIndex, answers, markedQuestions, timers, dom,
                   checked, modal, pendingSubmits, submitCalls, timeoutSubmits,
                   sentCount, submitScore, resultCount, timeTaken>>

NextScore == Basic_applyCalculateResults \/ Api_applyShowOfflineResults

SpecScore == InitScore /\ [][NextScore]_vars

----------------------------------------------------------------------------
(* The percentage of the offline result over longer question lists *)


\* a list of n questions as /api/questions may supply it
LongList(n) == [i \in 1..n |-> Question(i, "A")]

\* the answers of a user who answered the first c questions, all correctly
FirstCorrect(qs, c) == [k \in {qs[i].id : i \in 1..c} |-> toString(1)]

InitPercent ==
    /\ impl = Api
    /\ \E n \in 1..MaxTotal :
          \E c \in 0..n :
             /\ questions = LongList(n)
             /\ answers = FirstCorrect(questions, c)
    /\ ScoreFields

SpecPercent == InitPercent /\ [][Api_applyShowOfflineResults]_vars

----------------------------------------------------------------------------
(* The timer over the whole exam time *)

NextTimer ==
    \/ Basic_tick
    \/ Basic_autoSubmitFire
    \/ Basic_submitBtn
    \/ Basic_hideSubmitModal
    \/ Basic_confirmSubmit
    \/ Basic_previousQuestion
    \/ Basic_nextQuestion
    \/ Api_tick
    \/ Api_showSubmitModal
    \/ Api_hideSubmitModal
    \/ Api_confirmSubmit
    \/ Api_submitResponse
    \/ Api_previousQuestion
    \/ Api_nextQuestion

SpecTimer == InitConstructed /\ [][NextTimer]_vars

----------------------------------------------------------------------------
(* The operations of a session in progress, applied one after another, each
   recorded with its argument, its outcome and the state it was applied in *)

\* option positions the operations are tried with: the first, the fourth and
\* one no question has
OpPositions == {1, 4, 5}

\* a list as /api/questions may supply it: the ids are not the positions in
\* the list, and the first question has three options
ServerQuestions ==
    [i \in 1..NumQ |->
        [id |-> NumQ + 1 - i,
         options |-> IF i = 1 THEN <<"A", "B", "C">> ELSE Options4,
         correct |-> <<"B">>]]

InitOps ==
    /\ impl \in {Basic, Api}
    /\ questions \in IF impl = Basic
                     THEN {SubSeq(BuiltInQuestions, 1, NumQ)}
                     ELSE {SubSeq(BuiltInQuestions, 1, NumQ), ServerQuestions}
    /\ InitFields(ExamSeconds)

\* the record of an operation: how it ended ("returned" or the exception it
\* threw) and the state it found
Called(op, arg, outcome) ==
    <<[op |-> op, arg |-> arg, outcome |-> outcome,
       index |-> currentQuestionIndex, answers |-> answers,
       marked |-> markedQuestions, checked |-> checked]>>

aside == <<fixed, timers, dom, modal, submission>>

\* goToQuestion(index), as window.examInterface lets any script call it
Basic_goToQuestion_call ==
    /\ impl = Basic
    /\ \E index \in (-1)..Len(questions) :
          /\ IF index >= 0 /\ index < Len(questions)
             THEN /\ currentQuestionIndex' = index
                  /\ Basic_updateDisplay(answers, markedQuestions, index)
             ELSE UNCHANGED <<currentQuestionIndex, checked, progressShown>>
          /\ called' = Called("goToQuestion", index, "returned")
    /\ UNCHANGED <<answers, markedQuestions, aside>>

\* selectOption(value): document.querySelector(`input[value="${value}"]`) is
\* null when no option has that value, and .closest of null throws
Basic_selectOption_call ==
    /\ impl = Basic
    /\ \E p \in OpPositions :
          /\ Basic_storeOption(toString(p))
          /\ called' = Called("selectOption", p,
                              IF \E n \in 1..Len(CurrentQuestion.options) :
                                    toString(n) = toString(p)
                              THEN "returned" ELSE "TypeError")
    /\ UNCHANGED <<currentQuestionIndex, markedQuestions, checked, aside>>

\* a click on an option
Basic_optionClick_call ==
    /\ impl = Basic
    /\ \E n \in 1..Len(CurrentQuestion.options) \cap OpPositions :
          /\ checked' = toString(n)
          /\ Basic_storeOption(toString(n))
          /\ called' = Called("optionClick", n, "returned")
    /\ UNCHANGED <<currentQuestionIndex, markedQuestions, aside>>

\* saveAnswer()
Basic_saveAnswer_call ==
    /\ impl = Basic
    /\ IF checked # NoRadio
       THEN Basic_storeOption(checked)
       ELSE UNCHANGED <<answers, progressShown>>
    /\ called' = Called("saveAnswer", 0, "returned")
    /\ UNCHANGED <<currentQuestionIndex, markedQuestions, checked, aside>>

\* clearAnswer()
Basic_clearAnswer_call ==
    /\ impl = Basic
    /\ answers' = Delete(answers, Basic_questionId)
    /\ Basic_updateDisplay(answers', markedQuestions, currentQuestionIndex)
    /\ called' = Called("clearAnswer", 0, "returned")
    /\ UNCHANGED <<currentQuestionIndex, markedQuestions, aside>>

\* markForReview()
Basic_markForReview_call ==
    /\ impl = Basic
    /\ markedQuestions' =
          IF Basic_questionId \in markedQuestions
          THEN markedQuestions \ {Basic_questionId}
          ELSE markedQuestions \cup {Basic_questionId}
    /\ Basic_updateDisplay(answers, markedQuestions', currentQuestionIndex)
    /\ called' = Called("markForReview", 0, "returned")
    /\ UNCHANGED <<currentQuestionIndex, answers, aside>>

\* goToQuestion(questionIndex) as its callers call it: Home, End, and the
\* progress bar with floor(percentage * length), percentage in [0, 1]
Api_goToQuestion_call ==
    /\ impl = Api
    /\ \E questionIndex \in 0..Len(questions) :
          /\ IF questionIndex >= 0 /\ questionIndex < Len(questions)
             THEN /\ currentQuestionIndex' = questionIndex
                  /\ Api_updateDisplay(answers, markedQuestions, questionIndex)
             ELSE UNCHANGED <<currentQuestionIndex, checked, progressShown>>
          /\ called' = Called("goToQuestion", questionIndex, "returned")
    /\ UNCHANGED <<answers, markedQuestions, aside>>

\* mutant: selectOption stores under the position of the question in the list
Api_selectOption_call_keyedByIndex ==
    /\ impl = Api
    /\ \E key \in DigitKeys \cap OpPositions :
          LET optionNumber == parseInt(toString(key))
          IN  /\ IF optionNumber \in 1..Len(CurrentQuestion.options)
                 THEN /\ checked' = toString(optionNumber)
                      /\ answers' = Store(answers, currentQuestionIndex + 1,
                                          toString(optionNumber))
                      /\ Api_updateQuestionNavigator(answers', markedQuestions)
                 ELSE UNCHANGED <<checked, answers, progressShown>>
              /\ called' = Called("selectOption", optionNumber, "returned")
    /\ UNCHANGED <<currentQuestionIndex, markedQuestions, aside>>

\* selectOption(optionNumber) as the key handler calls it for the keys 1 to 4:
\* nothing happens when document.getElementById(`option${optionNumber}`) is null
Api_selectOption_call ==
    /\ impl = Api
    /\ \E key \in DigitKeys \cap OpPositions :
          LET optionNumber == parseInt(toString(key))
          IN  /\ IF optionNumber \in 1..Len(CurrentQuestion.options)
                 THEN /\ checked' = toString(optionNumber)
                      /\ answers' = Store(answers, Api_getCurrentQuestionId,
                                          toString(optionNumber))
                      /\ Api_updateQuestionNavigator(answers', markedQuestions)
                 ELSE UNCHANGED <<checked, answers, progressShown>>
              /\ called' = Called("selectOption", optionNumber, "returned")
    /\ UNCHANGED <<currentQuestionIndex, markedQuestions, aside>>

\* a click on a radio: its change listener
Api_radioChange_call ==
    /\ impl = Api
    /\ \E n \in 1..Len(CurrentQuestion.options) \cap OpPositions :
          /\ checked' = toString(n)
          /\ answers' = Store(answers, Api_getCurrentQuestionId, toString(n))
          /\ Api_updateQuestionNavigator(answers', markedQuestions)
          /\ called' = Called("optionClick", n, "returned")
    /\ UNCHANGED <<currentQuestionIndex, markedQuestions, aside>>

\* saveAnswer()
Api_saveAnswer_call ==
    /\ impl = Api
    /\ Api_saveAnswer
    /\ called' = Called("saveAnswer", 0, "returned")
    /\ UNCHANGED <<currentQuestionIndex, markedQuestions, checked, aside>>

\* mutant: clearAnswer deletes the entry under the position of the question
Api_clearAnswer_call_keyedByIndex ==
    /\ impl = Api
    /\ answers' = Delete(answers, currentQuestionIndex + 1)
    /\ checked' = NoRadio
    /\ Api_updateQuestionNavigator(answers', markedQuestions)
    /\ called' = Called("clearAnswer", 0, "returned")
    /\ UNCHANGED <<currentQuestionIndex, markedQuestions, aside>>

\* clearAnswer()
Api_clearAnswer_call ==
    /\ impl = Api
    /\ answers' = Delete(answers, Api_getCurrentQuestionId)
    /\ checked' = NoRadio
    /\ Api_updateQuestionNavigator(answers', markedQuestions)
    /\ called' = Called("clearAnswer", 0, "returned")
    /\ UNCHANGED <<currentQuestionIndex, markedQuestions, aside>>

\* markForReview()
Api_markForReview_call ==
    /\ impl = Api
    /\ markedQuestions' = Api_markForReview(markedQuestions)
    /\ Api_updateQuestionNavigator(answers, markedQuestions')
    /\ called' = Called("markForReview", 0, "returned")
    /\ UNCHANGED <<currentQuestionIndex, answers, checked, aside>>

\* one click on markBtn: its two click listeners run one after the other
Api_markBtn_call ==
    /\ impl = Api
    /\ markedQuestions' = Api_markForReview(Api_markForReview(markedQuestions))
    /\ Api_updateQuestionNavigator(answers, markedQuestions')
    /\ called' = Called("markBtn", 0, "returned")
    /\ UNCHANGED <<currentQuestionIndex, answers, checked, aside>>

NextOps ==
    \/ Basic_goToQuestion_call
    \/ Basic_selectOption_call
    \/ Basic_optionClick_call
    \/ Basic_saveAnswer_call
    \/ Basic_clearAnswer_call
    \/ Basic_markForReview_call
    \/ Api_goToQuestion_call
    \/ Api_selectOption_call
    \/ Api_radioChange_call
    \/ Api_saveAnswer_call
    \/ Api_clearAnswer_call
    \/ Api_markForReview_call
    \/ Api_markBtn_call

SpecOps == InitOps /\ [][NextOps]_vars

\* the session in its last TicksLeft seconds, the API class on the list of
\* /api/questions
InitServed ==
    /\ impl \in {Basic, Api}
    /\ questions = IF impl = Basic
                   THEN SubSeq(BuiltInQuestions, 1, NumQ)
                   ELSE ServerQuestions
    /\ InitFields(TicksLeft)

SpecServed == InitServed /\ [][Next]_vars

----------------------------------------------------------------------------
(* Submitting in the API class: the request to /api/submit and how it ends *)

\* how the request of submitExam() ends: an OK response with a result in its
\* body, a response that is not OK, a rejected fetch, or an OK response on
\* which response.json() or showResults(result) throws
SubmitOutcomes == {"ok", "notOk", "networkError", "unreadableBody"}

\* mutant: the catch block only logs the error
Api_submitResponse_call_onlyLogs ==
    /\ impl = Api
    /\ pendingSubmits > 0
    /\ pendingSubmits' = pendingSubmits - 1
    /\ \E outcome \in SubmitOutcomes :
          /\ IF outcome = "ok"
             THEN showResults(ServerResult)
             ELSE UNCHANGED <<shownResult, resultCount, dom, checked, modal,
                              progressShown>>
          /\ called' = Called("submitResponse", outcome, "returned")
    /\ submitScore' = <<>>
    /\ UNCHANGED <<fixed, currentQuestionIndex, answers, markedQuestions, timers,
                   submitCalls, timeoutSubmits, sentCount, timeTaken>>

\* submitExam() after its await, recorded with the way the request ended:
\* showResults(result) in the try block, showOfflineResults() in the catch
\* block, which every throw of the try block reaches
Api_submitResponse_call ==
    /\ impl = Api
    /\ pendingSubmits > 0
    /\ pendingSubmits' = pendingSubmits - 1
    /\ \E outcome \in SubmitOutcomes :
          /\ showResults(IF outcome = "ok" THEN ServerResult
                         ELSE Api_offlineResults(questions, answers))
          /\ called' = Called("submitResponse", outcome, "returned")
    /\ submitScore' = <<>>
    /\ UNCHANGED <<fixed, currentQuestionIndex, answers, markedQuestions, timers,
                   submitCalls, timeoutSubmits, sentCount, timeTaken>>

NextSubmit ==
    \/ Api_radioChange
    \/ Api_showSubmitModal
    \/ Api_hideSubmitModal
    \/ Api_confirmSubmit
    \/ Api_tick
    \/ Api_submitResponse_call

\* the API class in its last TicksLeft seconds
InitSubmit == impl = Api /\ Init

SpecSubmit == InitSubmit /\ [][NextSubmit]_vars

\* every request to /api/submit ends: fetch resolves or rejects
SpecSubmitFair == SpecSubmit /\ WF_vars(Api_submitResponse_call)

----------------------------------------------------------------------------
(* Loading the questions: loadQuestions() and init() of the API class *)

\* maxAttempts of the polling loop
MaxAttempts == 60

\* what a request for /api/extraction-progress may come to: one of the
\* statuses of the server, or "failed" when the request or the reading of
\* its body throws
ProgressAnswers == {"completed", "error", "idle", "processing", "failed"}

\* lists the server may put in its answer besides a sound one
RepeatedIdList == <<Question(1, "A"), Question(1, "B")>>
OneOptionList == <<[id |-> 1, options |-> <<"A">>, correct |-> <<"A">>]>>
CorrectOutsideList == <<[id |-> 1, options |-> <<"A", "B">>, correct |-> <<"D">>]>>

SuppliedLists ==
    {<<>>, ServerQuestions, RepeatedIdList, OneOptionList, CorrectOutsideList}

\* what the request for /api/questions may come to: fetched is FALSE when the
\* request or the reading of its body throws
QuestionsAnswers ==
    [fetched : BOOLEAN, ok : BOOLEAN, status : {"success", "error"},
     questions : SuppliedLists]

\* the condition under which the answer's questions are taken
Accepted(data) ==
    data.fetched /\ data.ok /\ data.status = "success" /\ Len(data.questions) > 0

\* the fields as the constructor leaves them
Constructed ==
    /\ impl = Api
    /\ questions = <<>>
    /\ currentQuestionIndex = 0
    /\ answers = <<>>
    /\ markedQuestions = {}
    /\ timeRemaining = ExamSeconds
    /\ timerInterval = FALSE
    /\ dom = "exam"
    /\ checked = NoRadio
    /\ modal = FALSE
    /\ autoSubmitTimeouts = 0
    /\ autoNextTimeouts = 0
    /\ pendingSubmits = 0
    /\ submitCalls = 0
    /\ timeoutSubmits = 0
    /\ sentCount = 0
    /\ submitScore = <<>>
    /\ shownResult = <<>>
    /\ resultCount = 0
    /\ clock = 0
    /\ timeTaken = <<>>
    /\ progressShown = <<>>
    /\ called = <<>>

InitLoad ==
    /\ Constructed
    /\ loading = [pc |-> "poll", attempts |-> 0, polled |-> "", data |-> <<>>]
    /\ AtExam

session == <<currentQuestionIndex, answers, markedQuestions, timeRemaining,
             autoSubmitTimeouts, autoNextTimeouts, dom, modal, submission,
             called>>

\* one round of the polling loop up to its wait: the request for the progress;
\* polled is progressData.status. The Error thrown for status 'error' is
\* caught by the catch block of the loop, which leaves the loop as a failed
\* request does
Load_progress ==
    /\ loading.pc = "poll"
    /\ \E status \in ProgressAnswers :
          loading' = [loading EXCEPT
                         !.polled = status,
                         !.pc = CASE status \in {"completed", "error", "failed"} -> "questions"
                                  [] status = "idle" -> "start"
                                  [] OTHER -> "wait"]
    /\ UNCHANGED <<impl, questions, fileSelector, session, timerInterval, clock,
                   checked, progressShown>>

\* status 'idle': the request that starts the extraction; when it throws the
\* loop is left
Load_startExtraction ==
    /\ loading.pc = "start"
    /\ \E sent \in BOOLEAN :
          loading' = [loading EXCEPT !.pc = IF sent THEN "wait" ELSE "questions"]
    /\ UNCHANGED <<impl, questions, fileSelector, session, timerInterval, clock,
                   checked, progressShown>>

\* mutant: the loop does not test the number of attempts
Load_wait_untilCompleted ==
    /\ loading.pc = "wait"
    /\ loading' = [loading EXCEPT !.attempts = @ + 1, !.pc = "poll"]
    /\ clock' = clock + 1
    /\ UNCHANGED <<impl, questions, fileSelector, session, timerInterval,
                   checked, progressShown>>

\* the second of waiting that ends a round, attempts++ and the test of the loop
Load_wait ==
    /\ loading.pc = "wait"
    /\ loading' = [loading EXCEPT
                       !.attempts = @ + 1,
                       !.pc = IF loading.attempts + 1 < MaxAttempts
                              THEN "poll" ELSE "questions"]
    /\ clock' = clock + 1
    /\ UNCHANGED <<impl, questions, fileSelector, session, timerInterval,
                   checked, progressShown>>

\* the request for /api/questions: its questions, or the built-in ones when
\* anything throws
Load_questions ==
    /\ loading.pc = "questions"
    /\ \E data \in QuestionsAnswers :
          /\ questions' = IF Accepted(data) THEN data.questions ELSE BuiltInQuestions
          /\ loading' = [loading EXCEPT !.pc = "animate", !.data = <<data>>]
    /\ UNCHANGED <<impl, fileSelector, session, timerInterval, clock, checked,
                   progressShown>>

\* simulateLoadingComplete(), then the rest of init(): startTimer() and
\* updateDisplay()
Load_complete ==
    /\ loading.pc = "animate"
    /\ loading' = [loading EXCEPT !.pc = "done"]
    /\ clock' = clock + LoadingSeconds
    /\ timerInterval' = TRUE
    /\ checked' = RenderChecked(answers, questions[1].id, questions[1])
    /\ progressShown' = <<Api_progress(questions, answers, markedQuestions,
                                       currentQuestionIndex)>>
    /\ UNCHANGED <<impl, questions, fileSelector, session>>

NextLoad ==
    \/ Load_progress
    \/ Load_startExtraction
    \/ Load_wait
    \/ Load_questions
    \/ Load_complete

SpecLoad == InitLoad /\ [][NextLoad]_vars

\* every request is answered or fails, every timeout fires
SpecLoadFair == SpecLoad /\ WF_vars(NextLoad)

----------------------------------------------------------------------------
(* The file selection page: FileSelector of file-selector.js *)

\* extractQuestions() calls followed on one page
MaxFlows == 2

\* files handed to handleFileSelect in one selection or one drop
MaxBatch == 2

\* files the user may pick in the file dialog or drop, with their sizes;
\* selectedFormat stays 'pdf', so only the first has an allowed extension
PickedFiles == {[name |-> "notes.pdf", size |-> 2048],
                [name |-> "notes.txt", size |-> 512]}
AllowedFiles == {file \in PickedFiles : file.name = "notes.pdf"}

\* the FileList of a selection or a drop
Batches == UNION { [1..n -> PickedFiles] : n \in 1..MaxBatch }

\* the id of an entry, Date.now() + Math.random(), is a number; the remove
\* button is rendered with onclick="fileSelector.removeFile('${file.id}')",
\* which hands over the string that spells it. === and !== tell the two apart
FileId(n) == <<"number", n>>
TemplateString(id) == <<"string", id[2]>>

\* an id no entry of files has
FreshId(files, k) ==
    LET used == {files[i].id[2] : i \in 1..Len(files)}
    IN  FileId(k + (IF used = {} THEN 0
                    ELSE CHOOSE n \in used : \A m \in used : m <= n))

\* the sample file cards rendered
SampleCards == {"CHSL-1.pdf"}

UploadMethods == {"upload", "samples"}

\* what a request may come to: an OK response, a response that is not OK, or
\* an exception (the request fails, or the body of an OK response is not JSON)
RequestOutcomes == {"ok", "notOk", "threw"}

Notification(type, message) == [type |-> type, message |-> message]

\* the page as the constructor of FileSelector leaves it; no exam page yet
InitSelect ==
    /\ Constructed
    /\ loading = [pc |-> "none", attempts |-> 0, polled |-> "", data |-> <<>>]
    /\ selectedFiles = <<>>
    /\ sampleSelected = {}
    /\ uploadMethod = "upload"
    /\ progressModal = FALSE
    /\ actionButtons \in {ActionButtons(FALSE), ActionButtons(TRUE)}
    /\ flows = <<>>
    /\ requests = <<>>
    /\ notifications = {}
    /\ location = "/"

exam == <<impl, questions, loading, session, timerInterval, clock, checked,
          progressShown>>

\* the exam page's fields but called
examFields == <<impl, questions, loading, currentQuestionIndex, answers,
                markedQuestions, timeRemaining, autoSubmitTimeouts,
                autoNextTimeouts, dom, modal, submission, timerInterval, clock,
                checked, progressShown>>

\* handleFileSelect(files): the files of an allowed extension that
\* selectedFiles has no entry of the same name and size for are collected in
\* validFiles and pushed together; a warning for each of the others
Select_handleFileSelect ==
    /\ location = "/"
    /\ \E files \in Batches :
          LET validFiles ==
                 SelectSeq(files,
                           LAMBDA file :
                              /\ file \in AllowedFiles
                              /\ ~\E i \in 1..Len(selectedFiles) :
                                     /\ selectedFiles[i].name = file.name
                                     /\ selectedFiles[i].size = file.size)
          IN  /\ selectedFiles' = selectedFiles \o
                     [i \in 1..Len(validFiles) |->
                         [name |-> validFiles[i].name, size |-> validFiles[i].size,
                          isSample |-> FALSE, id |-> FreshId(selectedFiles, i)]]
              /\ notifications' = notifications \cup
                     {Notification("warning", "not a supported format") :
                         i \in {k \in 1..Len(files) : files[k] \notin AllowedFiles}}
    /\ actionButtons' = ActionButtons(Len(selectedFiles') > 0)
    /\ UNCHANGED <<exam, sampleSelected, uploadMethod, progressModal, flows,
                   requests, location>>

\* mutant: toggleSampleFile(card) without its updateActionButtons()
Select_toggleSampleFile_buttonsLeft ==
    /\ location = "/"
    /\ \E card \in SampleCards :
          IF card \in sampleSelected
          THEN /\ sampleSelected' = sampleSelected \ {card}
               /\ selectedFiles' = SelectSeq(selectedFiles, LAMBDA f : f.name # card)
          ELSE /\ sampleSelected' = sampleSelected \cup {card}
               /\ selectedFiles' = Append(selectedFiles,
                                          [name |-> card, size |-> "2.5 MB",
                                           isSample |-> TRUE,
                                           id |-> FreshId(selectedFiles, 1)])
    /\ UNCHANGED <<exam, uploadMethod, progressModal, actionButtons, flows, requests,
                   notifications, location>>

\* toggleSampleFile(card)
Select_toggleSampleFile ==
    /\ location = "/"
    /\ \E card \in SampleCards :
          IF card \in sampleSelected
          THEN /\ sampleSelected' = sampleSelected \ {card}
               /\ selectedFiles' = SelectSeq(selectedFiles, LAMBDA f : f.name # card)
          ELSE /\ sampleSelected' = sampleSelected \cup {card}
               /\ selectedFiles' = Append(selectedFiles,
                                          [name |-> card, size |-> "2.5 MB",
                                           isSample |-> TRUE,
                                           id |-> FreshId(selectedFiles, 1)])
    /\ actionButtons' = ActionButtons(Len(selectedFiles') > 0)
    /\ UNCHANGED <<exam, uploadMethod, progressModal, flows, requests,
                   notifications, location>>

\* removeFile(fileId), called by the remove button of an entry shown: the
\* entries whose id !== fileId are kept; the card of a sample file is looked
\* up by the name of the entry of that id among the entries kept
Select_removeFile ==
    /\ location = "/"
    /\ \E i \in 1..Len(selectedFiles) :
          LET fileId == TemplateString(selectedFiles[i].id)
              kept == SelectSeq(selectedFiles, LAMBDA f : f.id # fileId)
              found == {k \in 1..Len(kept) : kept[k].id = fileId}
          IN  /\ selectedFiles' = kept
              /\ sampleSelected' =
                    IF found = {}
                    THEN sampleSelected
                    ELSE sampleSelected \ {kept[CHOOSE k \in found :
                                                  \A m \in found : k <= m].name}
              /\ called' = Called("removeFile", i, "returned")
    /\ actionButtons' = ActionButtons(Len(selectedFiles') > 0)
    /\ UNCHANGED <<examFields, uploadMethod, progressModal, flows,
                   requests, notifications, location>>

\* switchUploadMethod(method)
Select_switchUploadMethod ==
    /\ location = "/"
    /\ \E method \in UploadMethods : uploadMethod' = method
    /\ UNCHANGED <<exam, selectedFiles, sampleSelected, progressModal, actionButtons,
                   flows, requests, notifications, location>>

\* a call of extractQuestions(): the path it takes, where it stands, and
\* what has happened to it
Flow(mode, pc) ==
    [mode |-> mode, pc |-> pc, uploaded |-> FALSE, started |-> FALSE,
     reported |-> FALSE]

Request(flow, url, useSamples) == [flow |-> flow, url |-> url, useSamples |-> useSamples]

\* extractQuestions() up to its first await: with no file a warning and
\* nothing else; in upload mode the upload request; in samples mode the
\* simulated progress
Select_extractQuestions ==
    /\ location = "/"
    /\ Len(flows) < MaxFlows
    /\ IF Len(selectedFiles) = 0
       THEN /\ notifications' = notifications \cup
                  {Notification("warning", "Please select files first.")}
            /\ flows' = Append(flows, Flow("none", "returned"))
            /\ UNCHANGED <<progressModal, requests>>
       ELSE /\ progressModal' = TRUE
            /\ IF uploadMethod = "samples"
               THEN /\ flows' = Append(flows, Flow("samples", "simulate"))
                    /\ UNCHANGED requests
               ELSE /\ flows' = Append(flows, Flow("upload", "upload"))
                    /\ requests' = Append(requests,
                                          Request(Len(flows) + 1, "/api/upload", FALSE))
            /\ UNCHANGED notifications
    /\ UNCHANGED <<exam, selectedFiles, sampleSelected, uploadMethod, actionButtons,
                   location>>

\* the catch block of extractQuestions() for flow i
Select_catch(i) ==
    /\ notifications' = notifications \cup
          {Notification("error", "Extraction failed. Please try again.")}
    /\ progressModal' = FALSE
    /\ flows' = [flows EXCEPT ![i].pc = "failed", ![i].reported = TRUE]

\* uploadAndExtract(): the upload request comes back
Select_uploadResponse ==
    /\ location = "/"
    /\ \E i \in 1..Len(flows) :
          /\ flows[i].pc = "upload"
          /\ \E outcome \in RequestOutcomes :
                IF outcome = "ok"
                THEN /\ flows' = [flows EXCEPT ![i].pc = "simulate",
                                               ![i].uploaded = TRUE]
                     /\ UNCHANGED <<notifications, progressModal>>
                ELSE Select_catch(i)
    /\ UNCHANGED <<exam, selectedFiles, sampleSelected, uploadMethod, actionButtons,
                   requests, location>>

\* mutant: the start-extraction request never says useSamples
Select_simulated_plainOptions ==
    /\ location = "/"
    /\ \E i \in 1..Len(flows) :
          /\ flows[i].pc = "simulate"
          /\ flows' = [flows EXCEPT ![i].pc = "start"]
          /\ requests' = Append(requests,
                                Request(i, "/api/start-extraction", FALSE))
    /\ UNCHANGED <<exam, selectedFiles, sampleSelected, uploadMethod,
                   progressModal, actionButtons, notifications, location>>

\* simulateExtraction() has run its seven steps: the start-extraction request
\* is sent, with useSamples: true by extractFromSamples()
Select_simulated ==
    /\ location = "/"
    /\ \E i \in 1..Len(flows) :
          /\ flows[i].pc = "simulate"
          /\ flows' = [flows EXCEPT ![i].pc = "start"]
          /\ requests' = Append(requests,
                                Request(i, "/api/start-extraction",
                                        flows[i].mode = "samples"))
    /\ UNCHANGED <<exam, selectedFiles, sampleSelected, uploadMethod,
                   progressModal, actionButtons, notifications, location>>

\* mutant: the page goes to /exam whatever the start-extraction request came to
Select_startResponse_alwaysNavigates ==
    /\ location = "/"
    /\ \E i \in 1..Len(flows) :
          /\ flows[i].pc = "start"
          /\ \E outcome \in RequestOutcomes :
                /\ flows' = [flows EXCEPT ![i].pc = "navigated",
                                          ![i].started = (outcome = "ok")]
                /\ location' = "/exam"
                /\ UNCHANGED <<notifications, progressModal>>
    /\ UNCHANGED <<exam, selectedFiles, sampleSelected, uploadMethod, actionButtons,
                   requests>>

\* the start-extraction request comes back: on success extractQuestions()
\* goes to /exam
Select_startResponse ==
    /\ location = "/"
    /\ \E i \in 1..Len(flows) :
          /\ flows[i].pc = "start"
          /\ \E outcome \in RequestOutcomes :
                IF outcome = "ok"
                THEN /\ flows' = [flows EXCEPT ![i].pc = "navigated",
                                               ![i].started = TRUE]
                     /\ location' = "/exam"
                     /\ UNCHANGED <<notifications, progressModal>>
                ELSE /\ Select_catch(i)
                     /\ UNCHANGED location
    /\ UNCHANGED <<exam, selectedFiles, sampleSelected, uploadMethod, actionButtons,
                   requests>>

\* cancelExtraction(), from the button of the progress modal: the modal is
\* hidden and a notification shown; the calls in progress are not told and
\* go on
Select_cancelExtraction ==
    /\ location = "/"
    /\ progressModal
    /\ progressModal' = FALSE
    /\ notifications' = notifications \cup
          {Notification("info", "Extraction cancelled.")}
    /\ UNCHANGED <<exam, selectedFiles, sampleSelected, uploadMethod, actionButtons,
                   flows, requests, location>>

\* the operations of the page before an extraction is asked for
NextFiles ==
    \/ Select_handleFileSelect
    \/ Select_toggleSampleFile
    \/ Select_removeFile
    \/ Select_switchUploadMethod

SpecFiles == InitSelect /\ [][NextFiles]_vars

\* the operations an extraction depends on
NextSelect ==
    \/ Select_handleFileSelect
    \/ Select_toggleSampleFile
    \/ Select_switchUploadMethod
    \/ Select_extractQuestions
    \/ Select_uploadResponse
    \/ Select_simulated
    \/ Select_startResponse
    \/ Select_cancelExtraction

SpecSelect == InitSelect /\ [][NextSelect]_vars

----------------------------------------------------------------------------
(* Properties *)

\* the 1-based position of the option a question names as correct
CorrectPosition(q) == CHOOSE n \in 1..26 : UpperCase[n] = q.correct[1]

\* num / den rounded to the nearest integer, a half rounded up
HalfUp(num, den) == (2 * num + den) \div (2 * den)

\* questions of qs whose entry in a is the correct option position
ClaimCorrect(qs, a) ==
    {i \in 1..Len(qs) :
        /\ AnswerKey(qs, i) \in DOMAIN a
        /\ parseInt(a[AnswerKey(qs, i)]) = CorrectPosition(qs[i])}

\* questions of qs with an entry in a
ClaimAttempted(qs, a) == {i \in 1..Len(qs) : AnswerKey(qs, i) \in DOMAIN a}

\* r classifies every question of qs as the scoring algorithm prescribes
ClaimClassified(r, qs, a) ==
    /\ r.total = Len(qs)
    /\ r.correct = Cardinality(ClaimCorrect(qs, a))
    /\ r.incorrect = Cardinality(ClaimAttempted(qs, a) \ ClaimCorrect(qs, a))
    /\ r.unattempted = Len(qs) - Cardinality(ClaimAttempted(qs, a))
    /\ r.percentage = HalfUp(100 * Cardinality(ClaimCorrect(qs, a)), Len(qs))

\* C1: every result either class computes on submit classifies each question
\* of the set as unattempted (no entry), correct (entry equal to the correct
\* option position) or incorrect (any other entry), and reports the counts and
\* the percentage of that classification.
C1_ScoringClassifies ==
    [][(resultCount' > resultCount /\ shownResult'[1].by # "server")
          => ClaimClassified(shownResult'[1], questions, answers)]_vars

\* C2: a session produces at most one ScoreReport and sends at most one
\* submission to the sink.
C2_SingleSubmission == resultCount <= 1 /\ sentCount <= 1

\* C3: once timeRemaining has reached 0 the timer is stopped, so further ticks
\* change nothing, and exactly one submission has been started by the timer
\* (scheduled or made); before that the timer has started none.  When the
\* timer's submission is the only one, at most one result is shown and at most
\* one request is sent.
C3_TimeoutSubmitsOnce ==
    /\ timeRemaining <= 0 =>
          (~timerInterval /\ timeoutSubmits + autoSubmitTimeouts = 1)
    /\ timeRemaining > 0 => timeoutSubmits + autoSubmitTimeouts = 0
    /\ timeoutSubmits <= 1
    /\ submitCalls = timeoutSubmits =>
          (resultCount <= timeoutSubmits /\ sentCount <= timeoutSubmits)

\* C3 witness: the timer ran out and its one submission showed its result
C3_Witness ==
    /\ timeRemaining = 0
    /\ timeoutSubmits = 1
    /\ submitCalls = 1
    /\ resultCount = 1

\* C4: there is no state in which timeRemaining is 0 and submitExam has not
\* been invoked: the tick that reaches 0 itself submits.
C4_TimeoutSubmitsAtOnce == timeRemaining = 0 => submitCalls > 0

\* C5: once submitExam has been invoked, currentIndex, answers and marked keep
\* their values in every later step.
C5_FrozenAfterSubmit ==
    [][submitCalls > 0
          => UNCHANGED <<currentQuestionIndex, answers, markedQuestions>>]_vars

\* a locally computed result
IsLocal(r) == r.by \in {"calculateResults", "showOfflineResults"}

Tick == Basic_tick \/ Api_tick

\* C7: timeRemaining starts at 5400, every tick decreases it by exactly 1, no
\* other step changes it, and it is never negative.
C7_TimeRemaining ==
    /\ timeRemaining = 5400
    /\ [](timeRemaining >= 0)
    /\ [][Tick => timeRemaining' = timeRemaining - 1]_vars
    /\ [][timeRemaining' # timeRemaining => Tick]_vars

\* C7 witness: the timer has counted all the way down
C7_Witness == timeRemaining = 0 /\ ~timerInterval

\* C8: once submitExam has been invoked (by the user or by the timer) the
\* timer is stopped and timeRemaining never changes again.
C8_SubmitStopsTimer ==
    /\ [](submitCalls > 0 => ~timerInterval)
    /\ [][submitCalls > 0 => timeRemaining' = timeRemaining]_vars

\* C8 witness: a submission made with time left on the timer
C8_Witness == submitCalls > 0 /\ timeRemaining > 0 /\ ~timerInterval

\* C9: the locally computed result shown for a session's one submission is
\* the score of answers as they were when submitExam was invoked.
C9_ReportOfSubmitTimeAnswers ==
    [][(resultCount' > resultCount /\ submitCalls = 1 /\ submitScore # <<>>
            /\ IsLocal(shownResult'[1]))
          => shownResult'[1] = submitScore[1]]_vars

\* C10: currentIndex is 0 initially and always in [0, length - 1]; next and
\* previous move it by exactly 1, except next on the last question and previous
\* on the first, which leave it unchanged.
C10_IndexInRange ==
    /\ currentQuestionIndex = 0
    /\ [](currentQuestionIndex \in 0..(Len(questions) - 1))
    /\ [][(Basic_nextQuestion \/ Api_nextQuestion) =>
            currentQuestionIndex' =
               IF currentQuestionIndex = Len(questions) - 1
               THEN currentQuestionIndex ELSE currentQuestionIndex + 1]_vars
    /\ [][(Basic_previousQuestion \/ Api_previousQuestion) =>
            currentQuestionIndex' =
               IF currentQuestionIndex = 0
               THEN currentQuestionIndex ELSE currentQuestionIndex - 1]_vars

\* C10 witness: the last question is shown, where next has nowhere to go
C10_Witness == currentQuestionIndex = Len(questions) - 1 /\ currentQuestionIndex > 0

\* the navigation handlers of both classes
Navigation ==
    \/ Basic_previousQuestion \/ Basic_nextQuestion \/ Basic_goToQuestion
    \/ Api_previousQuestion \/ Api_nextQuestion \/ Api_goToQuestion
    \/ Api_navigatorClick

\* C11: navigation is pure: goTo, next, previous, a click in the question grid
\* or on the progress bar, and any other step that moves currentIndex, leave
\* answers and marked as they are.
C11_NavigationPure ==
    [][(Navigation \/ currentQuestionIndex' # currentQuestionIndex)
          => UNCHANGED <<answers, markedQuestions>>]_vars

\* C11 witness: question 1 was answered and marked, then left for question 2
C11_Witness ==
    /\ currentQuestionIndex = 1
    /\ questions[1].id \in DOMAIN answers
    /\ questions[1].id \in markedQuestions
    /\ dom = "exam"

\* C15: the timeout a save scheduled leaves currentIndex and marked as the
\* save found them, and the save itself and every other way of recording an
\* answer do so too.
C15_AnswerHasNoSideEffect ==
    [][(\/ Api_autoNextFire
        \/ Api_saveBtn \/ Api_saveKey \/ Api_selectOption \/ Api_radioChange
        \/ Basic_saveAnswer \/ Basic_selectOption \/ Basic_optionClick)
          => UNCHANGED <<currentQuestionIndex, markedQuestions>>]_vars

\* C20: the time taken reported with a submission is the time the timer has
\* counted, timeLimit - timeRemaining, and so never more than the time limit.
C20_TimeTakenIsTimerTime ==
    timeTaken # <<>> =>
        /\ timeTaken[1] = ExamSeconds - timeRemaining
        /\ timeTaken[1] <= ExamSeconds

\* C19: whenever the page shows progress, it is the progress of answers and
\* marked: answeredCount is the number of questions with an answers entry,
\* markedCount the size of marked, unansweredCount = total - answeredCount >= 0
\* and percentComplete = round(100 * answeredCount / total).
C19_ProgressFromAnswers ==
    progressShown # <<>> =>
        LET answered == Cardinality(ClaimAttempted(questions, answers))
        IN  /\ progressShown[1].answeredCount = answered
            /\ progressShown[1].markedCount = Cardinality(markedQuestions)
            /\ progressShown[1].unansweredCount = Len(questions) - answered
            /\ progressShown[1].unansweredCount >= 0
            /\ progressShown[1].percentComplete =
                   HalfUp(100 * answered, Len(questions))

\* the question the recorded operation was applied to, and its id
CalledQuestion == questions[called[1].index + 1]
CalledId == CalledQuestion.id

\* the recorded operation is op
CalledIs(op) == called # <<>> /\ called[1].op = op

\* C12: goTo(index) with index in [0, length) leaves currentIndex = index; with
\* any other index it ends in an OutOfRange error and leaves currentIndex as
\* it was.
C12_GoToInRangeOrError ==
    CalledIs("goToQuestion") =>
        IF called[1].arg \in 0..(Len(questions) - 1)
        THEN currentQuestionIndex = called[1].arg
        ELSE /\ called[1].outcome = "OutOfRange"
             /\ currentQuestionIndex = called[1].index

\* C13: selectAnswer with a position the question has no option for ends in an
\* InvalidOption error and leaves answers as they were.
C13_InvalidOptionRejected ==
    (CalledIs("selectOption")
       /\ called[1].arg \notin 1..Len(CalledQuestion.options)) =>
        /\ called[1].outcome = "InvalidOption"
        /\ answers = called[1].answers

\* answers is what it was before the recorded operation, but for the entry of
\* the question the operation was applied to, which is the position p
StoredUnderId(p) ==
    /\ DOMAIN answers = DOMAIN called[1].answers \cup {CalledId}
    /\ parseInt(answers[CalledId]) = p
    /\ \A k \in DOMAIN answers \ {CalledId} : answers[k] = called[1].answers[k]

\* C14: selecting a valid position p (by key, by click, or by saving the
\* checked radio) stores p under the id of the question shown, overwrites what
\* was there and leaves every other entry alone.
C14_AnswerStoredUnderId ==
    /\ ((CalledIs("selectOption") \/ CalledIs("optionClick"))
           /\ called[1].arg \in 1..Len(CalledQuestion.options))
          => StoredUnderId(called[1].arg)
    /\ (CalledIs("saveAnswer") /\ called[1].checked # NoRadio)
          => StoredUnderId(parseInt(called[1].checked))

\* C14 witness: an answer overwritten by another, on a question whose id is not
\* its position in the list, with the answer of the other question in place
C14_Witness ==
    /\ CalledIs("selectOption")
    /\ CalledId # called[1].index + 1
    /\ CalledId \in DOMAIN called[1].answers
    /\ called[1].answers[CalledId] # answers[CalledId]
    /\ Cardinality(DOMAIN answers) > 1

\* C16: clearAnswer removes the entry of the question shown, if there is one,
\* and nothing else: the other entries, marked and currentIndex stay.
C16_ClearRemovesOneEntry ==
    CalledIs("clearAnswer") =>
        /\ DOMAIN answers = DOMAIN called[1].answers \ {CalledId}
        /\ \A k \in DOMAIN answers : answers[k] = called[1].answers[k]
        /\ markedQuestions = called[1].marked
        /\ currentQuestionIndex = called[1].index

\* C16 witness: an answered and marked question cleared, another one answered
C16_Witness ==
    /\ CalledIs("clearAnswer")
    /\ CalledId \in DOMAIN called[1].answers
    /\ CalledId \in markedQuestions
    /\ answers # <<>>
    /\ CalledId # called[1].index + 1

\* C17: selecting an option for an unanswered question and clearing it right
\* after leaves answers exactly as before the selection, and the answered
\* count shown as well.
C17_SelectClearRoundTrip ==
    [][((CalledIs("selectOption") \/ CalledIs("optionClick"))
          /\ CalledId \notin DOMAIN called[1].answers
          /\ CalledId \in DOMAIN answers
          /\ called'[1].op = "clearAnswer")
        => /\ answers' = called[1].answers
           /\ progressShown'[1].answeredCount = Cardinality(DOMAIN called[1].answers)]_vars

\* C17 witness: the one answer there was has been cleared
C17_Witness ==
    /\ CalledIs("clearAnswer")
    /\ DOMAIN called[1].answers = {CalledId}
    /\ answers = <<>>
    /\ progressShown[1].answeredCount = 0

\* C18: markForReview flips the membership of the question shown in marked,
\* and of no other; applied twice in a row it restores marked; it never
\* changes answers.
C18_ToggleMark ==
    /\ [](CalledIs("markForReview") =>
            /\ markedQuestions = (called[1].marked \ {CalledId})
                                    \cup ({CalledId} \ called[1].marked)
            /\ answers = called[1].answers)
    /\ [][(CalledIs("markForReview") /\ called'[1].op = "markForReview")
            => markedQuestions' = called[1].marked]_vars

\* C18 witness: a question unmarked while another stays marked and answered
C18_Witness ==
    /\ CalledIs("markForReview")
    /\ CalledId \in called[1].marked
    /\ markedQuestions # {}
    /\ answers # <<>>


\* C21: the percentage of a score report is 100 * correct / total rounded to
\* the nearest integer, a half rounded up:
\* floor((200 * correct + total) / (2 * total))
C21_PercentageHalfUp ==
    (shownResult # <<>> /\ shownResult[1].by # "server") =>
        shownResult[1].percentage =
            (200 * shownResult[1].correct + shownResult[1].total)
                \div (2 * shownResult[1].total)

\* a question list as the specification requires it: not empty, the ids
\* unique, every question with at least two options and its correct option
\* among them
WellFormedList(qs) ==
    /\ qs # <<>>
    /\ \A i, j \in 1..Len(qs) : qs[i].id = qs[j].id => i = j
    /\ \A i \in 1..Len(qs) :
          /\ Len(qs[i].options) >= 2
          /\ CorrectPosition(qs[i]) \in 1..Len(qs[i].options)

\* C22: a supplied list that is empty, repeats an id or holds a question with
\* fewer than two options or a correct option outside its options never
\* becomes the question set; a running session has a non-empty set with
\* unique ids
C22_SuppliedListValidated ==
    /\ (loading.data # <<>> /\ ~WellFormedList(loading.data[1].questions))
          => questions # loading.data[1].questions
    /\ timerInterval => WellFormedList(questions)

\* C30: loading ends, after at most 60 polling attempts, with the questions of
\* the server or the ten built-in ones, never with none, and the timer starts
\* then and not before
C30_LoadingTerminates ==
    /\ <>(loading.pc = "done")
    /\ [](loading.attempts <= MaxAttempts)
    /\ [](timerInterval <=> loading.pc = "done")
    /\ [](loading.pc = "done" =>
            /\ questions # <<>>
            /\ IF Accepted(loading.data[1])
               THEN questions = loading.data[1].questions
               ELSE questions = BuiltInQuestions /\ Len(questions) = 10)

C30_Witness ==
    /\ loading.pc = "done"
    /\ loading.attempts = MaxAttempts
    /\ ~loading.data[1].fetched
    /\ questions = BuiltInQuestions
    /\ timerInterval

ErrorReported ==
    Notification("error", "Extraction failed. Please try again.") \in notifications

\* C23: the page goes to /exam only after the start-extraction request has
\* returned success; a call with no file selected sends no request; when the
\* upload or the start-extraction request fails the call does not navigate,
\* the progress modal is hidden and an error is reported
C23_NavigateOnlyAfterSuccess ==
    /\ [](location = "/exam" =>
            \E i \in 1..Len(flows) :
               /\ flows[i].pc = "navigated"
               /\ flows[i].started
               /\ \E k \in 1..Len(requests) :
                     requests[k].flow = i /\ requests[k].url = "/api/start-extraction")
    /\ [](\A i \in 1..Len(flows) :
            /\ flows[i].pc = "navigated" => flows[i].started
            /\ flows[i].mode = "none" =>
                  \A k \in 1..Len(requests) : requests[k].flow # i
            /\ flows[i].pc = "failed" => ~flows[i].started /\ flows[i].reported)
    /\ [][(Len(selectedFiles) = 0 /\ Len(flows') > Len(flows))
            => (requests' = requests /\ location' = location)]_vars
    /\ [][\A i \in 1..Len(flows) :
             (flows[i].pc \in {"upload", "start"} /\ flows'[i].pc \notin {"simulate", "navigated"}
              /\ flows'[i].pc # flows[i].pc)
             => (flows'[i].pc = "failed" /\ location' = "/" /\ ~progressModal'
                 /\ ErrorReported')]_vars

C23_Witness ==
    /\ location = "/exam"
    /\ Len(flows) = 2
    /\ flows[1].pc = "failed" /\ flows[1].uploaded
    /\ flows[2].pc = "navigated" /\ flows[2].mode = "upload"
    /\ ErrorReported
    /\ ~progressModal

\* C24: a call in upload mode sends the start-extraction request only after
\* its upload request has succeeded; a call in samples mode sends no upload
\* request and its start-extraction request carries useSamples = true
C24_UploadBeforeExtraction ==
    \A k \in 1..Len(requests) :
       LET r == requests[k]
           f == flows[r.flow]
       IN  /\ r.url = "/api/upload" => f.mode = "upload"
           /\ r.url = "/api/start-extraction" =>
                 IF f.mode = "upload"
                 THEN /\ f.uploaded
                      /\ \E j \in 1..(k - 1) :
                            requests[j] = Request(r.flow, "/api/upload", FALSE)
                 ELSE /\ f.mode = "samples"
                      /\ r.useSamples
                      /\ \A j \in 1..Len(requests) :
                            requests[j].flow = r.flow => requests[j].url # "/api/upload"

C24_Witness ==
    /\ Len(requests) = 3
    /\ flows[1].mode = "upload" /\ flows[1].pc = "start"
    /\ flows[2].mode = "samples" /\ flows[2].pc = "start"
    /\ requests[3] = Request(1, "/api/start-extraction", FALSE)

\* C26: one mark-for-review action of the user in the API class, a click on
\* the mark button or a press of 'm' or Ctrl+m, flips the mark of the current
\* question exactly once: it is marked after iff it was not before
C26_MarkActionFlipsOnce ==
    (impl = Api /\ (CalledIs("markBtn") \/ CalledIs("markForReview"))) =>
        (CalledId \in markedQuestions <=> CalledId \notin called[1].marked)

\* the last operation has drawn the options of the current question anew
Redisplayed ==
    \/ CalledIs("goToQuestion") /\ called[1].arg \in 0..(Len(questions) - 1)
    \/ impl = Basic /\ (CalledIs("clearAnswer") \/ CalledIs("markForReview"))

\* C27: when a question is displayed again, the option shown as selected is
\* the answer stored for it, and none is shown selected when it has no
\* entry, however the answer was recorded (radio, click, number key, save)
C27_RedisplayShowsStored ==
    Redisplayed =>
        checked = IF CurrentQuestion.id \in DOMAIN answers
                  THEN answers[CurrentQuestion.id] ELSE NoRadio

C27_Witness ==
    /\ CalledIs("goToQuestion")
    /\ currentQuestionIndex # called[1].index
    /\ CurrentQuestion.id \in DOMAIN answers
    /\ checked = answers[CurrentQuestion.id]
    /\ checked # called[1].checked
    /\ Cardinality(DOMAIN answers) = Len(questions)

\* the entry of answers under key is the entry of the question q: its key is
\* the id of q and its value the position of one of the options of q
EntryOf(key, q) ==
    /\ q.id = key
    /\ parseInt(answers[key]) \in 1..Len(q.options)

\* C28: in every reachable state every key of answers is the id of a question
\* of the set and its value is the position of one of the options of that
\* question, and timer ticks and navigation never add, overwrite or remove
\* an entry
C28_AnswersWellFormed ==
    /\ [](\A key \in DOMAIN answers :
             \E i \in 1..Len(questions) : EntryOf(key, questions[i]))
    /\ [][(Tick \/ Navigation) => answers' = answers]_vars

\* C28 witness: every question of the server's list is answered, the one of
\* three options too, a tick has passed and the user has navigated
C28_Witness ==
    /\ impl = Api
    /\ \E i \in 1..Len(questions) : questions[i].id # i
    /\ DOMAIN answers = {questions[i].id : i \in 1..Len(questions)}
    /\ Len(questions[1].options) = 3
    /\ timeRemaining < TicksLeft
    /\ currentQuestionIndex > 0
    /\ dom = "exam"

\* the answers of the session by the position of the question in the list,
\* as the basic class keys them, and by the id of the question, as the API
\* class does
AnswersByPosition ==
    [i \in {j \in 1..Len(questions) : AnswerKey(questions, j) \in DOMAIN answers}
        |-> answers[AnswerKey(questions, i)]]

AnswersById ==
    [key \in {questions[i].id : i \in DOMAIN AnswersByPosition}
        |-> AnswersByPosition[CHOOSE i \in DOMAIN AnswersByPosition :
                                 questions[i].id = key]]

\* what the other class reports for the same questions and the same answers
OtherClassResult ==
    IF impl = Basic
    THEN Api_offlineResults(questions, AnswersById)
    ELSE Basic_calculateResults(questions, AnswersByPosition)

\* C25: on the same question set and the same answers the result of
\* calculateResults of the basic class and the result of showOfflineResults
\* of the API class have the same total, correct, incorrect, unattempted and
\* percentage
C25_ScoringEquivalent ==
    (shownResult # <<>> /\ IsLocal(shownResult[1])) =>
        \A field \in {"total", "correct", "incorrect", "unattempted", "percentage"} :
            shownResult[1][field] = OtherClassResult[field]

\* C29: every submit of the API class ends in exactly one displayed result,
\* never none and never two: the result of the server when the request ended
\* in an OK response, else the offline result computed from the answers
C29_SubmitShowsOneResult ==
    /\ \A n \in 1..(MaxSubmits + 1) : (submitCalls >= n) ~> (resultCount >= n)
    /\ [](submitCalls = resultCount + pendingSubmits)
    /\ [](CalledIs("submitResponse") =>
            /\ dom = "results"
            /\ shownResult =
                  <<IF called[1].arg = "ok"
                    THEN ServerResult
                    ELSE Api_offlineResults(questions, called[1].answers)>>)

\* C29 witness: two submits, the first answered by the server's result, the
\* second request failed and the offline result of the answers shown
C29_Witness ==
    /\ submitCalls = 2
    /\ resultCount = 2
    /\ pendingSubmits = 0
    /\ CalledIs("submitResponse")
    /\ called[1].arg = "networkError"
    /\ answers # <<>>
    /\ shownResult = <<Api_offlineResults(questions, answers)>>

\* C31: when a poll of the progress reports the status 'error', loading has
\* failed: /api/questions is not asked and the session runs on the built-in
\* questions
C31_ErrorStatusFailsLoading ==
    loading.polled = "error" =>
        /\ loading.data = <<>>
        /\ loading.pc = "done" => questions = BuiltInQuestions

\* C32: after cancelExtraction() during an extraction the call is given up:
\* no request is sent for it any more and the page does not go to /exam
\* because of it. Stated for the first extractQuestions() call of a page:
\* while it is the only call, the modal that was cancelled was its modal
C32_CancelAbandons ==
    [][(/\ Notification("info", "Extraction cancelled.") \in notifications
        /\ Len(flows) = 1
        /\ Len(flows') = 1)
          => (requests' = requests /\ location' = location)]_vars

\* C33: removeFile, called with what the remove button of the i-th entry
\* hands over, removes that entry and no other from selectedFiles, and when
\* the entry is a sample file its card is no longer selected
C33_RemoveFileRemoves ==
    [][(called' # called /\ called'[1].op = "removeFile") =>
          LET i == called'[1].arg
          IN  /\ selectedFiles' = SubSeq(selectedFiles, 1, i - 1)
                                     \o SubSeq(selectedFiles, i + 1, Len(selectedFiles))
              /\ selectedFiles[i].isSample =>
                    selectedFiles[i].name \notin sampleSelected']_vars

\* C34: the path of an extraction agrees with the entries selected when it
\* is asked for: no sample file goes into the upload request, and no
\* uploaded file is left out by an extraction from the samples
C34_PathAgreesWithFiles ==
    [][Len(flows') > Len(flows) =>
          LET mode == flows'[Len(flows')].mode
          IN  /\ mode = "upload" =>
                    \A i \in 1..Len(selectedFiles) : ~selectedFiles[i].isSample
              /\ mode = "samples" =>
                    \A i \in 1..Len(selectedFiles) : selectedFiles[i].isSample]_vars

\* C35: after handleFileSelect, toggleSampleFile and removeFile the extract
\* and the preview button are enabled, and the extraction options visible,
\* exactly when selectedFiles is not empty
C35_ButtonsFollowSelection ==
    [][(Select_handleFileSelect \/ Select_toggleSampleFile \/ Select_removeFile) =>
          /\ actionButtons'.extractBtn <=> Len(selectedFiles') > 0
          /\ actionButtons'.previewBtn <=> Len(selectedFiles') > 0
          /\ actionButtons'.extractionOptions <=> Len(selectedFiles') > 0]_vars

\* C35 witness: the last entry was taken out of the selection again, after
\* the remove button of an entry had been used, and the buttons are disabled
C35_Witness ==
    /\ selectedFiles = <<>>
    /\ called # <<>>
    /\ notifications # {}
    /\ actionButtons = ActionButtons(FALSE)

\* C36: selectedFiles never holds two uploaded entries of the same name and
\* size, and never an uploaded entry of an extension that is not allowed
C36_UploadedFilesUnique ==
    \A i \in 1..Len(selectedFiles) :
       ~selectedFiles[i].isSample =>
          /\ [name |-> selectedFiles[i].name, size |-> selectedFiles[i].size]
                \in AllowedFiles
          /\ \A k \in 1..Len(selectedFiles) :
                (/\ ~selectedFiles[k].isSample
                 /\ selectedFiles[k].name = selectedFiles[i].name
                 /\ selectedFiles[k].size = selectedFiles[i].size) => k = i

============================================================================
